---- MODULE Spec2Model ----
(***************************************************************************)
(* The crop suitability recommendation engine of src/app.py: the start-up  *)
(* training step initialize_ml_model, the predictor                        *)
(* enhanced_crop_prediction with its confidence-band remap, and the        *)
(* fallback provider get_fallback_recommendations.                         *)
(*                                                                         *)
(* Numbers.  A raw class probability is a count k of PTotal equal parts    *)
(* (p = k / PTotal), so base_confidence = p * 100 is the rational          *)
(* 100 * k / PTotal.  A confidence, after round(confidence, 1), is an      *)
(* integer number of tenths (91.2 is 912).  A feature value is the literal  *)
(* the caller wrote ("6.5").  A continuous value of the training corpus is *)
(* an integer number of hundredths (ph 6.5 is 650).                        *)
(*                                                                         *)
(* Specifications.  Spec is the process: start-up and prediction requests. *)
(* SpecData runs create_enhanced_crop_dataset and the label encoding       *)
(* statement by statement.  SpecFallback calls                             *)
(* get_fallback_recommendations with a caller that changes the lists it    *)
(* got.  SpecThreads runs the predictor on two request threads.            *)
(***************************************************************************)
EXTENDS Integers, Sequences, FiniteSets, TLC

\* Resolution of the probability estimates: every probability is k/PTotal.
PTotal == 7

\* Number of classes that can receive a non-zero probability in one estimate.
MaxVoted == 5

\* Resolution of the held-out accuracy: accuracy_score returns a/AccGrid.
AccGrid == 1

\* Resolution of a random draw: a draw from [a, b] returns a + (b - a) * q / DrawGrid
\* for some q in 0 .. DrawGrid.
DrawGrid == 1

\* for _ in range(300)
SamplesPerCrop == 300

\* Number of calls of get_fallback_recommendations a caller makes.
MaxCalls == 2

\* Longest pin code text given to validate_pincode.
MaxPinLen == 7

VARIABLES
    entry,          \* how the file was loaded: "script" (__main__) or "module"
    pc,             \* position of the process: "start", "initialized", "serving"
    model,          \* global model:   "None", "unfitted" or "fitted"
    scaler,         \* global scaler:  "None", "unfitted" or "fitted"
    le_crop,        \* global le_crop: "None", "unfitted" or "fitted"
    initResult,     \* what initialize_ml_model returned: "not_called", "True", "False"
    failedAt,       \* the step of initialize_ml_model that raised, "none" if none
    scaler_fits,    \* the data the scaler's statistics were fitted from, one entry per fit
    accuracy,       \* << a >> once accuracy_score returned a/AccGrid, << >> before
    call,           \* "idle", or "returned"/"propagated" for the last prediction call
    input_params,   \* argument of the last call
    features,       \* the vector handed to scaler.transform
    probabilities,  \* what predict_proba returned
    top_indices,    \* the three selected class indices (0-based), in selection order
    appended,       \* number of recommendations appended before the call left the loop
    fault,          \* the step at which an exception from outside hit the call, "none" if none
    raised,         \* the step of the call that raised, "none" if none
    steps,          \* the calls on the global artifacts the call made, in order
    via,            \* the return statement taken: "absent", "model", "except"
    result          \* the list the call returned

VARIABLES
    runs,           \* how many times the process was started
    gen_pc,         \* create_enhanced_crop_dataset and the encoding that follows:
                    \* "call", "body", "done", "returned", "encoded"
    crop_i,         \* position of the outer loop variable crop in crops_data
    loop_n,         \* the inner loop variable _
    at,             \* the statement of the loop body that runs next
    drawn,          \* << v >>: the value the last draw statement assigned
    data,           \* the rows appended so far, as blocks [label, rows] of
                    \* consecutive rows with the same label
    head,           \* << v >>: temperature of the first row of the first run
    label_encoded,  \* data['label_encoded'], one class index per block of data
    decoded         \* << block, name >>: the last inverse_transform of an index

VARIABLES
    lists,          \* the lists get_fallback_recommendations returned, each with
                    \* its present content
    fb_pc,          \* "none", "returned" (a call just returned) or "mutated"
    forest,         \* the fitted forest with np.argsort behind it: the answer
                    \* [p, top] to each feature vector
    t_pc,           \* per thread: the statement of the predictor that runs next
    t_input,        \* per thread: input_params
    t_locals,       \* per thread: features, probabilities, top_indices, i
    frames,         \* per frame: the list recommendations
    t_result        \* per thread: << >> or << via, returned list >>

VARIABLES
    pin_arg,        \* the argument of validate_pincode
    pin_result,     \* << >> or the pair validate_pincode returned
    route,          \* the handler that serves the request, "none" before
    request,        \* the request
    calls,          \* the functions the handler called, in order
    response,       \* << >> or the JSON object the handler returned
    h_fault,        \* the call that raises an exception of its own, or "none"
    propagated      \* TRUE when an exception left the handler

validation == << pin_arg, pin_result >>
handlers == << route, request, calls, response, h_fault, propagated >>

fallbacks == << lists, fb_pc >>
threads == << forest, t_pc, t_input, t_locals, frames, t_result >>

server == << entry, pc, model, scaler, le_crop, initResult, failedAt,
             scaler_fits, accuracy, call,
             input_params, features, probabilities, top_indices, appended,
             fault, raised, steps, via, result >>
corpus == << runs, gen_pc, crop_i, loop_n, at, drawn, data, head,
             label_encoded, decoded >>

vars == << pin_arg, pin_result, route, request, calls, response, h_fault,
           propagated,
           lists, fb_pc, forest, t_pc, t_input, t_locals, frames, t_result,
           runs, gen_pc, crop_i, loop_n, at, drawn, data, head,
           label_encoded, decoded,
           entry, pc, model, scaler, le_crop, initResult, failedAt,
           scaler_fits, accuracy, call,
           input_params, features, probabilities, top_indices, appended,
           fault, raised, steps, via, result >>

engine == << model, scaler, le_crop, initResult, failedAt >>
training == << scaler_fits, accuracy >>
frame  == << input_params, features, probabilities, top_indices, appended,
             fault, raised, steps, via, result >>

----------------------------------------------------------------------------
(* Helpers *)

Min(a, b) == IF a <= b THEN a ELSE b

\* Python's round(x, 1) for x = num/den, in tenths: nearest, ties to even (a
\* tie needs a hundredths digit 5, which no k/PTotal below gives).
Round1(num, den) ==
    LET n == 10 * num
        q == n \div den
        r == n % den
    IN  IF 2 * r < den THEN q
        ELSE IF 2 * r > den THEN q + 1
        ELSE IF q % 2 = 0 THEN q ELSE q + 1

----------------------------------------------------------------------------
(* The registry and the trained artifacts *)

\* Keys of crops_data, in insertion order.
crops_data ==
    << "rice", "wheat", "maize", "tomato", "potato", "onion",
       "apple", "mango", "banana", "chickpea", "soybean", "mustard" >>

\* A registry in which every range is the single point 25 / 70 / 6.5 / 100.
params_flat(crop) ==
    [ temp |-> << 2500, 2500 >>, humidity |-> << 7000, 7000 >>,
      ph |-> << 650, 650 >>, rainfall |-> << 10000, 10000 >> ]

\* The declared (min, max) of the four continuous fields, in hundredths
\* (ph 5.0 is 500, temp 22 is 2200).
params(crop) ==
    CASE crop = "rice" ->
           [ temp |-> << 2200, 3200 >>, humidity |-> << 8000, 9500 >>,
             ph |-> << 500, 650 >>, rainfall |-> << 15000, 30000 >> ]
      [] crop = "wheat" ->
           [ temp |-> << 1200, 2500 >>, humidity |-> << 5000, 7000 >>,
             ph |-> << 600, 750 >>, rainfall |-> << 5000, 10000 >> ]
      [] crop = "maize" ->
           [ temp |-> << 2000, 3000 >>, humidity |-> << 6000, 8000 >>,
             ph |-> << 550, 700 >>, rainfall |-> << 6000, 12000 >> ]
      [] crop = "tomato" ->
           [ temp |-> << 2000, 3000 >>, humidity |-> << 6000, 8000 >>,
             ph |-> << 600, 700 >>, rainfall |-> << 6000, 15000 >> ]
      [] crop = "potato" ->
           [ temp |-> << 1500, 2500 >>, humidity |-> << 7000, 9000 >>,
             ph |-> << 520, 640 >>, rainfall |-> << 5000, 10000 >> ]
      [] crop = "onion" ->
           [ temp |-> << 2000, 3000 >>, humidity |-> << 6500, 7500 >>,
             ph |-> << 600, 750 >>, rainfall |-> << 6500, 12500 >> ]
      [] crop = "apple" ->
           [ temp |-> << 1000, 2500 >>, humidity |-> << 5000, 7000 >>,
             ph |-> << 600, 700 >>, rainfall |-> << 10000, 15000 >> ]
      [] crop = "mango" ->
           [ temp |-> << 2400, 3500 >>, humidity |-> << 6000, 8000 >>,
             ph |-> << 550, 750 >>, rainfall |-> << 7500, 20000 >> ]
      [] crop = "banana" ->
           [ temp |-> << 2600, 3500 >>, humidity |-> << 7500, 9500 >>,
             ph |-> << 650, 750 >>, rainfall |-> << 15000, 25000 >> ]
      [] crop = "chickpea" ->
           [ temp |-> << 2000, 3000 >>, humidity |-> << 6000, 8000 >>,
             ph |-> << 600, 750 >>, rainfall |-> << 4000, 8000 >> ]
      [] crop = "soybean" ->
           [ temp |-> << 2200, 3000 >>, humidity |-> << 6000, 8000 >>,
             ph |-> << 600, 700 >>, rainfall |-> << 7500, 12500 >> ]
      [] crop = "mustard" ->
           [ temp |-> << 1000, 2500 >>, humidity |-> << 6000, 8000 >>,
             ph |-> << 600, 750 >>, rainfall |-> << 4000, 8000 >> ]

\* The code points of a label, as the sort of the label column compares them.
Spelling(crop) ==
    CASE crop = "rice" -> << 114, 105, 99, 101 >>
      [] crop = "wheat" -> << 119, 104, 101, 97, 116 >>
      [] crop = "maize" -> << 109, 97, 105, 122, 101 >>
      [] crop = "tomato" -> << 116, 111, 109, 97, 116, 111 >>
      [] crop = "potato" -> << 112, 111, 116, 97, 116, 111 >>
      [] crop = "onion" -> << 111, 110, 105, 111, 110 >>
      [] crop = "apple" -> << 97, 112, 112, 108, 101 >>
      [] crop = "mango" -> << 109, 97, 110, 103, 111 >>
      [] crop = "banana" -> << 98, 97, 110, 97, 110, 97 >>
      [] crop = "chickpea" -> << 99, 104, 105, 99, 107, 112, 101, 97 >>
      [] crop = "soybean" -> << 115, 111, 121, 98, 101, 97, 110 >>
      [] crop = "mustard" -> << 109, 117, 115, 116, 97, 114, 100 >>

\* a < b for two labels: at the first position where they differ a has the
\* smaller code point, or a is a proper prefix of b.
LabelLess(a, b) ==
    LET sa == Spelling(a)
        sb == Spelling(b)
    IN  \E i \in 1 .. (Min(Len(sa), Len(sb)) + 1) :
          /\ \A j \in 1 .. (i - 1) : sa[j] = sb[j]
          /\ \/ i > Len(sa) /\ i <= Len(sb)
             \/ i <= Len(sa) /\ i <= Len(sb) /\ sa[i] < sb[i]

\* The labels of S in ascending order.
RECURSIVE Ascending(_)
Ascending(S) ==
    IF S = {} THEN << >>
    ELSE LET least == CHOOSE x \in S : \A y \in S \ { x } : LabelLess(x, y)
         IN  << least >> \o Ascending(S \ { least })

\* np.unique of a label column: its distinct values, sorted.
np_unique(labels) == Ascending({ labels[i] : i \in 1 .. Len(labels) })

\* le_crop.classes_ after fit_transform on the labels: the distinct labels in
\* sorted order; class index idx (0-based) is Classes[idx + 1].  Every key of
\* crops_data labels SamplesPerCrop rows of the column.
Classes == np_unique(crops_data)

NumClasses == Len(Classes)
ClassIndices == 0 .. (NumClasses - 1)

\* A decoding by position in crops_data instead of position in classes_.
inverse_by_insertion(idx) == crops_data[idx + 1]

\* le_crop.inverse_transform([idx])[0]
inverse_transform(idx) == Classes[idx + 1]

\* le_crop.transform: the class index of a crop name.
ClassIndex(crop) == CHOOSE idx \in ClassIndices : Classes[idx + 1] = crop

\* train_test_split(X, y, test_size=0.2, random_state=42, stratify=y): of the
\* rows of one class, a fifth (rounded up) goes to the test partition and the
\* rest to the training partition.
test_rows(rows) == (rows * 2 + 9) \div 10
train_rows(rows) == rows - test_rows(rows)

\* The encoded labels that occur in y_train.
y_train_labels ==
    { ClassIndex(crops_data[i]) :
        i \in { j \in 1 .. Len(crops_data) : train_rows(SamplesPerCrop) > 0 } }

\* The integers of S in ascending order.
RECURSIVE AscendingInts(_)
AscendingInts(S) ==
    IF S = {} THEN << >>
    ELSE LET least == CHOOSE x \in S : \A y \in S : x <= y
         IN  << least >> \o AscendingInts(S \ { least })

\* The classes in the order in which the corpus first shows them.
classes_first_seen ==
    [ i \in 1 .. Len(crops_data) |-> ClassIndex(crops_data[i]) ]

\* model.classes_ after model.fit(X_train_scaled, y_train): the distinct
\* values of y_train, sorted; column i of predict_proba is the class
\* model_classes[i + 1].
model_classes == AscendingInts(y_train_labels)

\* The distributions over n classes at this resolution: n entries k/PTotal
\* (written k) that sum to total/PTotal.
RECURSIVE Distributions(_, _)
Distributions(n, total) ==
    IF n = 0
    THEN IF total = 0 THEN { << >> } ELSE {}
    ELSE UNION { { << k >> \o s : s \in Distributions(n - 1, total - k) } :
                 k \in 0 .. total }

\* model.predict_proba(features_scaled)[0]: one entry per class, summing to 1.
\* Which distribution a fitted forest returns for a vector is not modelled: any
\* distribution that gives its votes to the first MaxVoted classes can come out.
predict_proba ==
    { d \o [ i \in 1 .. (NumClasses - MaxVoted) |-> 0 ] :
        d \in Distributions(MaxVoted, PTotal) }

----------------------------------------------------------------------------
(* get_fallback_recommendations *)

\* The triple listed from the highest confidence down.
fallback_descending ==
    << [crop |-> "maize", confidence |-> 984],
       [crop |-> "rice",  confidence |-> 957],
       [crop |-> "wheat", confidence |-> 912] >>

get_fallback_recommendations ==
    << [crop |-> "wheat", confidence |-> 912],
       [crop |-> "rice",  confidence |-> 957],
       [crop |-> "maize", confidence |-> 984] >>

----------------------------------------------------------------------------
(* enhanced_crop_prediction: the feature vector *)

FeatureKeys ==
    << "N", "P", "K", "temperature", "humidity", "ph", "rainfall" >>

\* The defaults of P and K exchanged.
DefaultSwapped ==
    [ N |-> "50", P |-> "40", K |-> "30", temperature |-> "25",
      humidity |-> "70", ph |-> "6.5", rainfall |-> "100" ]

\* The second argument of each input_params.get(key, default).
Default ==
    [ N |-> "50", P |-> "30", K |-> "40", temperature |-> "25",
      humidity |-> "70", ph |-> "6.5", rainfall |-> "100" ]

\* A lookup that also replaces a value that is not a number by the default.
GetNumberOrDefault(d, key, default) ==
    IF key \in DOMAIN d /\ d[key] # "abc" THEN d[key] ELSE default

\* dict.get(key, default)
Get(d, key, default) == IF key \in DOMAIN d THEN d[key] ELSE default

\* features = [[input_params.get('N', 50), ..., input_params.get('rainfall', 100)]]
Features(ip) ==
    [ i \in 1 .. Len(FeatureKeys) |->
        Get(ip, FeatureKeys[i], Default[FeatureKeys[i]]) ]

\* Values a caller supplies: numbers (written as the caller writes them) and
\* one value that is not a number.
NumericValues ==
    { "50", "30", "40", "25", "70", "6.5", "100",
      "61", "22", "58", "31.4", "77.5", "7.1", "12.3" }
NonNumeric == "abc"

Sample ==
    [ N |-> "61", P |-> "22", K |-> "58", temperature |-> "31.4",
      humidity |-> "77.5", ph |-> "7.1", rainfall |-> "12.3" ]

KeySets ==
    { {}, { "N", "P", "K", "temperature", "humidity", "ph", "rainfall" },
      { "P", "K", "humidity", "rainfall" } }

\* The dictionaries the predictor is called with.
InputParams ==
    { [ k \in S |-> Sample[k] ] : S \in KeySets }
    \cup { [ k \in { FeatureKeys[i] } |-> NonNumeric ] : i \in 1 .. Len(FeatureKeys) }
    \cup { [ k \in DOMAIN Sample |-> IF k = "ph" THEN NonNumeric ELSE Sample[k] ] }

----------------------------------------------------------------------------
(* enhanced_crop_prediction: top-3 selection and confidence remap *)

\* The indices of S whose probability is largest.
ArgMax(p, S) == { i \in S : \A j \in S : p[j + 1] <= p[i + 1] }

\* A selection that does not take the second index out before the third.
Top3Repeat(p) ==
    UNION { UNION { { << a, b, c >> :
                        c \in ArgMax(p, ClassIndices \ { a }) } :
                    b \in ArgMax(p, ClassIndices \ { a }) } :
            a \in ArgMax(p, ClassIndices) }

\* The slice [1:4] instead of [:3]: the second, third and fourth index.
Top3SkipFirst(p) ==
    UNION { UNION { UNION { { << b, c, d >> :
                        d \in ArgMax(p, ClassIndices \ { a, b, c }) } :
                    c \in ArgMax(p, ClassIndices \ { a, b }) } :
                b \in ArgMax(p, ClassIndices \ { a }) } :
            a \in ArgMax(p, ClassIndices) }

\* np.argsort(probabilities)[::-1][:3]: the last three indices of an ascending
\* sort, last first.  np.argsort's default sort is not stable, so among equal
\* probabilities any order can come out.
Top3(p) ==
    UNION { UNION { { << a, b, c >> :
                        c \in ArgMax(p, ClassIndices \ { a, b }) } :
                    b \in ArgMax(p, ClassIndices \ { a }) } :
            a \in ArgMax(p, ClassIndices) }

\* The band of loop position i (0, 1, 2): the number added to
\* base_confidence % 3, and the cap of min(...).
BandBase(i) == IF i = 0 THEN 90 ELSE IF i = 1 THEN 94 ELSE 97
\* min(..., 100) in every band.
BandCapHundred(i) == 100
BandCap(i)  == IF i = 0 THEN 92 ELSE IF i = 1 THEN 96 ELSE 100

\* The raw probability as a percentage, without the band.
ConfidenceRaw(i, k) == Round1(100 * k, PTotal)

\* round(min(base + (base_confidence % 3), cap), 1) in tenths, for the class
\* at loop position i with probability k/PTotal: base_confidence is
\* 100 * k / PTotal, so base_confidence % 3 is ((100 * k) % (3 * PTotal)) / PTotal.
Confidence(i, k) ==
    Round1(Min(BandBase(i) * PTotal + ((100 * k) % (3 * PTotal)),
               BandCap(i) * PTotal),
           PTotal)

\* The dictionary appended at loop position i for class index idx.
Recommendation(i, idx, p) ==
    [ crop |-> inverse_transform(idx), confidence |-> Confidence(i, p[idx + 1]) ]

\* recommendations after n iterations of the loop over top_indices.
Recommendations(p, top, n) ==
    [ i \in 1 .. n |-> Recommendation(i - 1, top[i], p) ]

\* list.sort(key=lambda x: x['confidence']): a stable ascending sort.
RECURSIVE Insert(_, _)
Insert(sorted, x) ==
    IF sorted = << >> THEN << x >>
    ELSE IF sorted[Len(sorted)].confidence <= x.confidence
         THEN Append(sorted, x)
         ELSE Append(Insert(SubSeq(sorted, 1, Len(sorted) - 1), x),
                     sorted[Len(sorted)])

RECURSIVE SortByConfidence(_)
SortByConfidence(recs) ==
    IF recs = << >> THEN << >>
    ELSE Insert(SortByConfidence(SubSeq(recs, 1, Len(recs) - 1)),
                recs[Len(recs)])

----------------------------------------------------------------------------
(* initialize_ml_model *)

\* The statements of the try block, in order.
InitSteps ==
    << "create_enhanced_crop_dataset", "LabelEncoder", "le_crop.fit_transform",
       "select_columns", "train_test_split", "StandardScaler",
       "scaler.fit_transform", "scaler.transform", "RandomForestClassifier",
       "model.fit", "model.predict", "accuracy_score" >>

StepNo(name) == CHOOSE i \in 1 .. Len(InitSteps) : InitSteps[i] = name

\* Number of statements completed when the statement failAt raised
\* ("none": no statement raised).
Completed(failAt) ==
    IF failAt = "none" THEN Len(InitSteps) ELSE StepNo(failAt) - 1

\* The globals as the try block leaves them after `done` completed statements:
\* each is assigned by its constructor statement and fitted by the next one.
LeCropAfter(done) ==
    IF done < StepNo("LabelEncoder") THEN "None"
    ELSE IF done < StepNo("le_crop.fit_transform") THEN "unfitted"
    ELSE "fitted"

\* The scaler fitted only after the forest has been constructed.
ScalerFittedLate(done) ==
    IF done < StepNo("StandardScaler") THEN "None"
    ELSE IF done < StepNo("model.fit") THEN "unfitted"
    ELSE "fitted"

ScalerAfter(done) ==
    IF done < StepNo("StandardScaler") THEN "None"
    ELSE IF done < StepNo("scaler.fit_transform") THEN "unfitted"
    ELSE "fitted"

\* A transform that fits again (fit_transform written for transform).
scaler_refit(fits, X) == Append(fits, X)

\* scaler.fit_transform(data): the statistics are computed from data.
scaler_fit_transform(fits, X) == Append(fits, X)

\* scaler.transform(data): data is scaled with the statistics as they are.
scaler_transform(fits, X) == fits

\* The data the scaler was fitted from after `done` completed statements.
ScalerFitsAfter(done) ==
    IF done < StepNo("scaler.fit_transform") THEN << >>
    ELSE IF done < StepNo("scaler.transform")
         THEN scaler_fit_transform(<< >>, "X_train")
         ELSE scaler_transform(scaler_fit_transform(<< >>, "X_train"), "X_test")

\* The forest constructed at the top of the try block instead of after the
\* scaler is fitted.
ModelBuiltEarly(done) ==
    IF done < StepNo("model.fit") THEN "unfitted" ELSE "fitted"

ModelAfter(done) ==
    IF done < StepNo("RandomForestClassifier") THEN "None"
    ELSE IF done < StepNo("model.fit") THEN "unfitted"
    ELSE "fitted"

\* A return value that depends on the accuracy reaching 90%.
ReturnIfAccurate(acc) == IF 10 * acc >= 9 * AccGrid THEN "True" ELSE "False"

\* accuracy = accuracy_score(...); print(... accuracy ...); return True
ReturnAfterEvaluation(acc) == "True"

\* return True at the end of the try block, return False in the handler.
InitReturn(failAt, acc) ==
    IF failAt = "none" THEN ReturnAfterEvaluation(acc) ELSE "False"

\* The local accuracy after `done` completed statements.
AccuracyAfter(done, acc) ==
    IF done < StepNo("accuracy_score") THEN << >> ELSE << acc >>

Unset == << >>

\* A path that calls initialize_ml_model again when it had returned False.
CallsInitializeOnFailure ==
    /\ entry = "script"
    /\ \/ pc = "start"
       \/ pc = "serving" /\ call = "idle" /\ initResult = "False"

\* The one call of initialize_ml_model: in the block under the __main__
\* guard, before app.run.
CallsInitialize ==
    /\ entry = "script"
    /\ pc = "start"

\* __main__: if initialize_ml_model(): ... else: ...
initialize_ml_model ==
    /\ CallsInitialize
    /\ \E failAt \in { InitSteps[i] : i \in 1 .. Len(InitSteps) } \cup { "none" } :
       \E acc \in 0 .. AccGrid :
         /\ le_crop' = LeCropAfter(Completed(failAt))
         /\ scaler' = ScalerAfter(Completed(failAt))
         /\ scaler_fits' = ScalerFitsAfter(Completed(failAt))
         /\ model' = ModelAfter(Completed(failAt))
         /\ accuracy' = AccuracyAfter(Completed(failAt), acc)
         /\ initResult' = InitReturn(failAt, acc)
         /\ failedAt' = failAt
    /\ pc' = "initialized"
    /\ UNCHANGED << entry, call, frame, corpus, fallbacks, threads, validation, handlers >>

\* __main__: app.run(debug=True, host='0.0.0.0', port=5000)
app_run ==
    /\ entry = "script"
    /\ pc = "initialized"
    /\ pc' = "serving"
    /\ UNCHANGED << entry, engine, training, call, frame, corpus, fallbacks, threads, validation, handlers >>

\* The file loaded as a module (__name__ is not '__main__'): the block under
\* the guard does not run, and the importer serves `app`.
import_app ==
    /\ entry = "module"
    /\ pc = "start"
    /\ pc' = "serving"
    /\ UNCHANGED << entry, engine, training, call, frame, corpus, fallbacks, threads, validation, handlers >>

----------------------------------------------------------------------------
(* enhanced_crop_prediction *)

\* The steps of the try block, in order.
Sites ==
    << "features", "transform", "predict_proba", "argsort",
       "loop0", "loop1", "loop2", "sort" >>

Faults == { Sites[i] : i \in 1 .. Len(Sites) } \cup { "none" }

\* Whether step `site` raises: an exception from outside (fault), or
\* scaler.transform on a missing or unfitted scaler or on a value that is not
\* a number, predict_proba on an unfitted model, inverse_transform on a
\* missing or unfitted encoder.
\* A forest whose predict_proba answers without having been fitted.
RaisesUnlessUnfittedForest(site, f, flt) ==
    \/ flt = site
    \/ /\ site = "transform"
       /\ \/ scaler # "fitted"
          \/ \E i \in 1 .. Len(f) : f[i] \notin NumericValues
    \/ site = "loop0" /\ le_crop # "fitted"

Raises(site, f, flt) ==
    \/ flt = site
    \/ /\ site = "transform"
       /\ \/ scaler # "fitted"
          \/ \E i \in 1 .. Len(f) : f[i] \notin NumericValues
    \/ site = "predict_proba" /\ model # "fitted"
    \/ site = "loop0" /\ le_crop # "fitted"

\* The first step that raises, "none" if none does.
RaiseSite(f, flt) ==
    LET raising == { i \in 1 .. Len(Sites) : Raises(Sites[i], f, flt) }
    IN  IF raising = {} THEN "none"
        ELSE Sites[CHOOSE i \in raising : \A j \in raising : i <= j]

SiteNo(site) == CHOOSE i \in 1 .. Len(Sites) : Sites[i] = site

\* The steps started when the call leaves the try block.
StepsUpTo(site) ==
    IF site = "none" THEN Sites ELSE SubSeq(Sites, 1, SiteNo(site))

\* Number of recommendations appended when `site` raises.
Appended(site) ==
    IF site \in { "features", "transform", "predict_proba", "argsort", "loop0" }
    THEN 0
    ELSE IF site = "loop1" THEN 1
    ELSE IF site = "loop2" THEN 2
    ELSE 3

\* A handler that raises again.
except_reraise(partial) ==
    [ outcome |-> "propagated", value |-> << >> ]

\* A handler that returns what the loop had appended.
except_return_partial(partial) ==
    [ outcome |-> "returned", value |-> partial ]

\* except Exception as e: print(...); return get_fallback_recommendations()
\* `partial` is the local list recommendations at the time of the exception.
except_handler(partial) ==
    [ outcome |-> "returned", value |-> get_fallback_recommendations ]

\* The call leaves through the handler; its locals are gone.
LeaveByException(ip, f, site, partial) ==
    /\ call' = except_handler(partial).outcome
    /\ result' = except_handler(partial).value
    /\ via' = "except"
    /\ raised' = site
    /\ appended' = Len(partial)
    /\ steps' = StepsUpTo(site)
    /\ input_params' = ip
    /\ features' = IF site = "features" THEN Unset ELSE f
    /\ probabilities' = Unset
    /\ top_indices' = Unset

enhanced_crop_prediction ==
    /\ pc = "serving"
    /\ call = "idle"
    /\ \E ip \in InputParams, flt \in Faults :
         /\ fault' = flt
         /\ scaler_fits' =
               IF /\ model # "None"
                  /\ RaiseSite(Features(ip), flt) \notin { "features", "transform" }
               THEN \* features_scaled = scaler.transform(features)
                    scaler_transform(scaler_fits, "features")
               ELSE scaler_fits
         /\ IF model = "None"
            THEN \* if model is None: return get_fallback_recommendations()
                 /\ flt = "none"
                 /\ call' = "returned"
                 /\ result' = get_fallback_recommendations
                 /\ via' = "absent"
                 /\ raised' = "none"
                 /\ appended' = 0
                 /\ steps' = << >>
                 /\ input_params' = ip
                 /\ features' = Unset
                 /\ probabilities' = Unset
                 /\ top_indices' = Unset
            ELSE LET f == Features(ip)
                     site == RaiseSite(f, flt)
                 IN  IF site \in { "features", "transform", "predict_proba" }
                     THEN LeaveByException(ip, f, site, << >>)
                     ELSE \E p \in predict_proba : \E top \in Top3(p) :
                            IF site = "none"
                            THEN /\ call' = "returned"
                                 /\ result' = SortByConfidence(Recommendations(p, top, 3))
                                 /\ via' = "model"
                                 /\ raised' = "none"
                                 /\ appended' = 3
                                 /\ steps' = Sites
                                 /\ input_params' = ip
                                 /\ features' = f
                                 /\ probabilities' = p
                                 /\ top_indices' = top
                            ELSE LeaveByException(ip, f, site,
                                     Recommendations(p, top, Appended(site)))
    /\ UNCHANGED << entry, pc, engine, accuracy, corpus, fallbacks, threads, validation, handlers >>

\* The caller takes the returned list; the next call can start.
call_returns ==
    /\ call # "idle"
    /\ call' = "idle"
    /\ input_params' = Unset
    /\ features' = Unset
    /\ probabilities' = Unset
    /\ top_indices' = Unset
    /\ appended' = 0
    /\ fault' = "none"
    /\ raised' = "none"
    /\ steps' = << >>
    /\ via' = "none"
    /\ result' = Unset
    /\ UNCHANGED << entry, pc, engine, training, corpus, fallbacks, threads, validation, handlers >>

----------------------------------------------------------------------------
(* The process *)

\* The globals of lines 668-670 are None: initialize_ml_model has not run.
Untrained ==
    /\ model = "None"
    /\ scaler = "None"
    /\ le_crop = "None"
    /\ initResult = "not_called"
    /\ failedAt = "none"
    /\ scaler_fits = << >>
    /\ accuracy = << >>

\* No call of enhanced_crop_prediction has been made.
NoRequest ==
    /\ call = "idle"
    /\ input_params = Unset
    /\ features = Unset
    /\ probabilities = Unset
    /\ top_indices = Unset
    /\ appended = 0
    /\ fault = "none"
    /\ raised = "none"
    /\ steps = << >>
    /\ via = "none"
    /\ result = Unset

\* The module is loaded and nothing ran.
Loaded ==
    /\ pc = "start"
    /\ Untrained
    /\ NoRequest

\* The globals as one call of initialize_ml_model leaves them.
AfterStartup ==
    \E failAt \in { InitSteps[i] : i \in 1 .. Len(InitSteps) } \cup { "none" } :
    \E acc \in 0 .. AccGrid :
      /\ le_crop = LeCropAfter(Completed(failAt))
      /\ scaler = ScalerAfter(Completed(failAt))
      /\ scaler_fits = ScalerFitsAfter(Completed(failAt))
      /\ model = ModelAfter(Completed(failAt))
      /\ accuracy = AccuracyAfter(Completed(failAt), acc)
      /\ initResult = InitReturn(failAt, acc)
      /\ failedAt = failAt

\* The server accepts requests: after initialize_ml_model returned when the
\* file was run as a script, with the globals None when it was imported.
Serving ==
    /\ pc = "serving"
    /\ NoRequest
    /\ IF entry = "script" THEN AfterStartup ELSE entry = "module" /\ Untrained

\* validate_pincode has not been called on its own.
NoValidation ==
    /\ pin_arg = << >>
    /\ pin_result = << >>

\* No request is being handled.
NoHandlers ==
    /\ route = "none"
    /\ request = << >>
    /\ calls = << >>
    /\ response = << >>
    /\ h_fault = "none"
    /\ propagated = FALSE

\* get_fallback_recommendations has not been called on its own.
NoFallbackCalls ==
    /\ lists = << >>
    /\ fb_pc = "none"

\* No thread runs the predictor.
NoThreads ==
    /\ forest = << >>
    /\ t_pc = << >>
    /\ t_input = << >>
    /\ t_locals = << >>
    /\ frames = << >>
    /\ t_result = << >>

\* create_enhanced_crop_dataset has not been called.
NoCorpus ==
    /\ runs = 1
    /\ gen_pc = "call"
    /\ crop_i = 1
    /\ loop_n = 0
    /\ at = 1
    /\ drawn = << >>
    /\ data = << >>
    /\ head = << >>
    /\ label_encoded = << >>
    /\ decoded = << >>

Init ==
    /\ entry \in { "script", "module" }
    /\ Loaded
    /\ NoCorpus
    /\ NoFallbackCalls
    /\ NoValidation
    /\ NoHandlers
    /\ NoThreads

Next ==
    \/ initialize_ml_model
    \/ app_run
    \/ import_app
    \/ enhanced_crop_prediction
    \/ call_returns

Spec == Init /\ [][Next]_vars

-----------------------------------------------------------------------------
(* create_enhanced_crop_dataset and the label encoding *)

\* A draw that scales the upper end instead of the width.
uniform_from_zero(a, b, q) == a + (b * q) \div DrawGrid

\* random.uniform(a, b): a + (b - a) * random(); q / DrawGrid is random().
uniform(a, b, q) == a + ((b - a) * q) \div DrawGrid

\* random.randint(a, b): an integer of a .. b.
randint(a, b, q) == a + ((b - a) * q) \div DrawGrid

\* The default nutrient ranges for every crop.
nutrient_ranges_else(crop) ==
    [ N |-> << 40, 100 >>, P |-> << 30, 70 >>, K |-> << 30, 70 >> ]

\* The arguments of the three randint calls of the branch the if/elif chain
\* takes for crop.
nutrient_ranges(crop) ==
    IF crop \in { "rice", "wheat", "maize" }
    THEN [ N |-> << 80, 120 >>, P |-> << 40, 80 >>, K |-> << 40, 80 >> ]
    ELSE IF crop \in { "tomato", "potato", "onion" }
    THEN [ N |-> << 100, 150 >>, P |-> << 50, 100 >>, K |-> << 50, 100 >> ]
    ELSE IF crop \in { "chickpea", "soybean" }
    THEN [ N |-> << 20, 40 >>, P |-> << 60, 100 >>, K |-> << 30, 60 >> ]
    ELSE [ N |-> << 40, 100 >>, P |-> << 30, 70 >>, K |-> << 30, 70 >> ]

\* The statements of the loop body, in order.
Body == << "temp", "humidity", "ph", "rainfall", "N", "P", "K", "append" >>

\* The loop variable crop.
loop_crop == crops_data[crop_i]

\* The variable the last statement assigned, "none" at the top of the body.
assigned == IF gen_pc = "body" /\ at > 1 THEN Body[at - 1] ELSE "none"

\* data.append({..., 'label': crop}) on the blocks of data.
append(d, label) ==
    IF Len(d) > 0 /\ d[Len(d)].label = label
    THEN [ d EXCEPT ![Len(d)].rows = @ + 1 ]
    ELSE Append(d, [ label |-> label, rows |-> 1 ])

\* len(data)
RECURSIVE len(_)
len(d) == IF d = << >> THEN 0 ELSE d[1].rows + len(Tail(d))

\* The number of rows of data labelled c.
RECURSIVE RowsOf(_, _)
RowsOf(d, c) ==
    IF d = << >> THEN 0
    ELSE (IF d[1].label = c THEN d[1].rows ELSE 0) + RowsOf(Tail(d), c)

\* data = create_enhanced_crop_dataset(): entry of the function.
create_enhanced_crop_dataset ==
    /\ gen_pc = "call"
    /\ gen_pc' = "body"
    /\ crop_i' = 1
    /\ loop_n' = 0
    /\ at' = 1
    /\ drawn' = << >>
    /\ data' = << >>
    /\ UNCHANGED << runs, head, label_encoded, decoded, server, fallbacks, threads, validation, handlers >>

\* temp, humidity, ph, rainfall = random.uniform(*params[...])
random_uniform ==
    /\ gen_pc = "body"
    /\ Body[at] \in { "temp", "humidity", "ph", "rainfall" }
    /\ \E q \in 0 .. DrawGrid :
         LET range == params(loop_crop)[Body[at]]
             v == uniform(range[1], range[2], q)
         IN  /\ drawn' = << v >>
             /\ head' = IF runs = 1 /\ data = << >> /\ Body[at] = "temp"
                        THEN << v >> ELSE head
    /\ at' = at + 1
    /\ UNCHANGED << runs, gen_pc, crop_i, loop_n, data, label_encoded, decoded, server, fallbacks, threads, validation, handlers >>

\* N, P, K = random.randint(..), random.randint(..), random.randint(..)
random_randint ==
    /\ gen_pc = "body"
    /\ Body[at] \in { "N", "P", "K" }
    /\ \E q \in 0 .. DrawGrid :
         LET range == nutrient_ranges(loop_crop)[Body[at]]
         IN  drawn' = << randint(range[1], range[2], q) >>
    /\ at' = at + 1
    /\ UNCHANGED << runs, gen_pc, crop_i, loop_n, data, head, label_encoded, decoded,
                    server, fallbacks, threads, validation, handlers >>

\* data.append({...}) and the step of both loops.
data_append ==
    /\ gen_pc = "body"
    /\ Body[at] = "append"
    /\ data' = append(data, loop_crop)
    /\ drawn' = << >>
    /\ at' = 1
    /\ IF loop_n + 1 < SamplesPerCrop
       THEN /\ loop_n' = loop_n + 1
            /\ UNCHANGED << crop_i, gen_pc >>
       ELSE IF crop_i < Len(crops_data)
       THEN /\ loop_n' = 0
            /\ crop_i' = crop_i + 1
            /\ UNCHANGED gen_pc
       ELSE /\ gen_pc' = "done"
            /\ UNCHANGED << crop_i, loop_n >>
    /\ UNCHANGED << runs, head, label_encoded, decoded, server, fallbacks, threads, validation, handlers >>

\* return pd.DataFrame(data)
return_DataFrame ==
    /\ gen_pc = "done"
    /\ gen_pc' = "returned"
    /\ UNCHANGED << runs, crop_i, loop_n, at, drawn, data, head, label_encoded,
                    decoded, server, fallbacks, threads, validation, handlers >>

\* data['label_encoded'] = le_crop.fit_transform(data['label'])
le_crop_fit_transform ==
    /\ gen_pc = "returned"
    /\ label_encoded' = [ i \in 1 .. Len(data) |-> ClassIndex(data[i].label) ]
    /\ gen_pc' = "encoded"
    /\ UNCHANGED << runs, crop_i, loop_n, at, drawn, data, head, decoded, server, fallbacks, threads, validation, handlers >>

\* le_crop.inverse_transform([idx])[0] for an index of the encoded column.
le_crop_inverse_transform ==
    /\ gen_pc = "encoded"
    /\ \E i \in 1 .. Len(label_encoded) :
         decoded' = << i, inverse_transform(label_encoded[i]) >>
    /\ UNCHANGED << runs, gen_pc, crop_i, loop_n, at, drawn, data, head,
                    label_encoded, server, fallbacks, threads, validation, handlers >>

\* The process ends and the script is started once more.
restart ==
    /\ gen_pc = "encoded"
    /\ runs = 1
    /\ runs' = 2
    /\ gen_pc' = "call"
    /\ crop_i' = 1
    /\ loop_n' = 0
    /\ at' = 1
    /\ drawn' = << >>
    /\ data' = << >>
    /\ label_encoded' = << >>
    /\ decoded' = << >>
    /\ UNCHANGED << head, server, fallbacks, threads, validation, handlers >>

InitData ==
    /\ entry = "script"
    /\ Loaded
    /\ NoCorpus
    /\ NoFallbackCalls
    /\ NoValidation
    /\ NoHandlers
    /\ NoThreads

NextData ==
    \/ create_enhanced_crop_dataset
    \/ random_uniform
    \/ random_randint
    \/ data_append
    \/ return_DataFrame
    \/ le_crop_fit_transform
    \/ le_crop_inverse_transform
    \/ restart

SpecData == InitData /\ [][NextData]_vars

-----------------------------------------------------------------------------
(* get_fallback_recommendations and the lists it returns *)

\* One list built once and handed out by every call.
fallback_cached(prev) ==
    IF prev = << >> THEN get_fallback_recommendations ELSE prev[1]

\* return [ {...}, {...}, {...} ]: the list display builds a new list of new
\* dictionaries on every call, whatever lists earlier calls returned.
fallback_list(prev) == get_fallback_recommendations

\* What a caller does to a list it holds.
Mutations == { "pop", "zero" }

\* l.pop() and l[0]['confidence'] = 0
Mutate(l, m) ==
    IF l = << >> THEN l
    ELSE IF m = "pop" THEN SubSeq(l, 1, Len(l) - 1)
    ELSE [ l EXCEPT ![1].confidence = 0 ]

fallback_call ==
    /\ Len(lists) < MaxCalls
    /\ lists' = Append(lists, fallback_list(lists))
    /\ fb_pc' = "returned"
    /\ UNCHANGED << server, corpus, threads, validation, handlers >>

caller_mutates ==
    /\ \E i \in 1 .. Len(lists) : \E m \in Mutations :
         /\ Mutate(lists[i], m) # lists[i]
         /\ lists' = [ lists EXCEPT ![i] = Mutate(@, m) ]
    /\ fb_pc' = "mutated"
    /\ UNCHANGED << server, corpus, threads, validation, handlers >>

InitFallback ==
    /\ entry \in { "script", "module" }
    /\ Serving
    /\ NoCorpus
    /\ NoFallbackCalls
    /\ NoValidation
    /\ NoHandlers
    /\ NoThreads

NextFallback ==
    \/ fallback_call
    \/ caller_mutates

SpecFallback == InitFallback /\ [][NextFallback]_vars

-----------------------------------------------------------------------------
(* enhanced_crop_prediction on several request threads (app.run serves each
   request on a thread of its own) *)

Threads == { 1, 2 }

\* One list recommendations for all invocations.
frame_shared(th) == 1

\* Every invocation has its own frame, and in it its own list recommendations.
frame_of(th) == th

\* The dictionaries the threads call the predictor with: every key given, no
\* key given, and one with a value that is not a number.
ThreadInputs == { ip \in InputParams : DOMAIN ip \in { {}, DOMAIN Sample } }

\* The feature vectors the forest is asked about.
Vectors ==
    { Features(ip) : ip \in { x \in ThreadInputs :
                                \A k \in DOMAIN x : x[k] \in NumericValues } }

\* The estimates a forest gives here: votes on the first three classes, in
\* descending order.
Estimates ==
    { d \in predict_proba :
        /\ d[1] >= d[2] /\ d[2] >= d[3] /\ d[3] >= 1
        /\ d[1] + d[2] + d[3] = PTotal }

\* model.predict_proba followed by np.argsort: for one vector always the same
\* estimate and the same order, fixed by the training.
Forests ==
    [ Vectors -> UNION { { [ p |-> d, top |-> o ] : o \in Top3(d) } :
                         d \in Estimates } ]

NoLocals ==
    [ features |-> Unset, probabilities |-> Unset, top_indices |-> Unset, i |-> 0 ]

\* The statement of the try block at loop position i.
LoopSite(i) == IF i = 0 THEN "loop0" ELSE IF i = 1 THEN "loop1" ELSE "loop2"

\* The invocation of thread th returns list l through path v; its frame goes.
thread_return(th, v, l) ==
    /\ t_result' = [ t_result EXCEPT ![th] = << v, l >> ]
    /\ t_pc' = [ t_pc EXCEPT ![th] = "returned" ]
    /\ t_locals' = [ t_locals EXCEPT ![th] = NoLocals ]

\* Thread th starts enhanced_crop_prediction(ip).
thread_call ==
    /\ \E th \in Threads : \E ip \in ThreadInputs :
         /\ t_pc[th] = "idle"
         /\ t_pc' = [ t_pc EXCEPT ![th] = "check" ]
         /\ t_input' = [ t_input EXCEPT ![th] = ip ]
    /\ UNCHANGED << forest, t_locals, frames, t_result, server, corpus, fallbacks, validation, handlers >>

\* Thread th runs its next statement.
thread_step ==
    /\ \E th \in Threads :
         LET at_pc == t_pc[th]
             loc == t_locals[th]
             fr == frame_of(th)
         IN  /\ at_pc \notin { "idle", "returned" }
             /\ IF at_pc = "check"
                THEN \* if model is None: return get_fallback_recommendations()
                     IF model = "None"
                     THEN /\ thread_return(th, "absent", get_fallback_recommendations)
                          /\ UNCHANGED frames
                     ELSE /\ t_pc' = [ t_pc EXCEPT ![th] = "features" ]
                          /\ UNCHANGED << t_locals, frames, t_result >>
                ELSE IF at_pc # "features"
                        /\ Raises(IF at_pc = "loop" THEN LoopSite(loc.i) ELSE at_pc,
                                  loc.features, "none")
                THEN \* except Exception: return get_fallback_recommendations()
                     /\ thread_return(th, "except", get_fallback_recommendations)
                     /\ UNCHANGED frames
                ELSE IF at_pc = "features"
                THEN /\ t_locals' = [ t_locals EXCEPT
                                        ![th].features = Features(t_input[th]) ]
                     /\ t_pc' = [ t_pc EXCEPT ![th] = "transform" ]
                     /\ UNCHANGED << frames, t_result >>
                ELSE IF at_pc = "transform"
                THEN /\ t_pc' = [ t_pc EXCEPT ![th] = "predict_proba" ]
                     /\ UNCHANGED << t_locals, frames, t_result >>
                ELSE IF at_pc = "predict_proba"
                THEN /\ t_locals' = [ t_locals EXCEPT
                                        ![th].probabilities = forest[loc.features].p ]
                     /\ t_pc' = [ t_pc EXCEPT ![th] = "argsort" ]
                     /\ UNCHANGED << frames, t_result >>
                ELSE IF at_pc = "argsort"
                THEN \* top_indices = ...; recommendations = []
                     /\ t_locals' = [ t_locals EXCEPT
                                        ![th].top_indices = forest[loc.features].top,
                                        ![th].i = 0 ]
                     /\ frames' = [ frames EXCEPT ![fr] = << >> ]
                     /\ t_pc' = [ t_pc EXCEPT ![th] = "loop" ]
                     /\ UNCHANGED t_result
                ELSE IF at_pc = "loop"
                THEN \* recommendations.append({...})
                     /\ frames' = [ frames EXCEPT ![fr] =
                                      Append(@, Recommendation(loc.i,
                                                    loc.top_indices[loc.i + 1],
                                                    loc.probabilities)) ]
                     /\ t_locals' = [ t_locals EXCEPT ![th].i = loc.i + 1 ]
                     /\ t_pc' = [ t_pc EXCEPT ![th] =
                                    IF loc.i = 2 THEN "sort" ELSE "loop" ]
                     /\ UNCHANGED t_result
                ELSE \* recommendations.sort(...); return recommendations
                     /\ frames' = [ frames EXCEPT ![fr] = SortByConfidence(@) ]
                     /\ thread_return(th, "model", SortByConfidence(frames[fr]))
    /\ UNCHANGED << forest, t_input, server, corpus, fallbacks, validation, handlers >>

\* The route handler has sent the list; the thread takes the next request.
thread_done ==
    /\ \E th \in Threads :
         /\ t_pc[th] = "returned"
         /\ t_pc' = [ t_pc EXCEPT ![th] = "idle" ]
         /\ t_input' = [ t_input EXCEPT ![th] = Unset ]
         /\ t_result' = [ t_result EXCEPT ![th] = << >> ]
         /\ frames' = [ frames EXCEPT ![frame_of(th)] = << >> ]
    /\ UNCHANGED << forest, t_locals, server, corpus, fallbacks, validation, handlers >>

InitThreads ==
    /\ entry \in { "script", "module" }
    /\ Serving
    /\ NoCorpus
    /\ NoFallbackCalls
    /\ NoValidation
    /\ NoHandlers
    /\ forest \in Forests
    /\ t_pc = [ th \in Threads |-> "idle" ]
    /\ t_input = [ th \in Threads |-> Unset ]
    /\ t_locals = [ th \in Threads |-> NoLocals ]
    /\ frames = [ th \in Threads |-> << >> ]
    /\ t_result = [ th \in Threads |-> << >> ]

NextThreads ==
    \/ thread_call
    \/ thread_step
    \/ thread_done

SpecThreads == InitThreads /\ [][NextThreads]_vars

-----------------------------------------------------------------------------
(* validate_pincode.  A text is the sequence of its characters. *)

Digits == { "0", "1", "2", "3", "4", "5", "6", "7", "8", "9" }

\* The characters of the pin code texts tried.
PinChars == { "1", "0", "-" }

RECURSIVE Texts(_)
Texts(m) ==
    IF m = 0 THEN { << >> }
    ELSE Texts(m - 1)
         \cup { Append(t, c) : t \in { x \in Texts(m - 1) : Len(x) = m - 1 },
                               c \in PinChars }

\* The values a request can carry as pin code: no value, a text, an integer
\* (given with its decimal text).
Pincodes ==
    { [ type |-> "NoneType", text |-> << "N", "o", "n", "e" >> ] }
    \cup { [ type |-> "str", text |-> t ] : t \in Texts(MaxPinLen) }
    \cup { [ type |-> "int", text |-> t ] :
             t \in { << "0" >>, << "1", "1", "0", "0", "0", "1" >>,
                     << "-", "1", "1", "0", "0", "0", "1" >>,
                     << "1", "1", "0", "0" >> } }

\* The truth value of `pincode` in `if not pincode`.
Truthy(v) ==
    IF v.type = "NoneType" THEN FALSE
    ELSE IF v.type = "int" THEN v.text # << "0" >>
    ELSE v.text # << >>

IsDigit(c) == c \in Digits

\* re.sub(r'[^0-9]', '', str(pincode))
clean_pincode(v) == SelectSeq(v.text, IsDigit)

validate_pincode(v) ==
    IF ~Truthy(v) THEN << FALSE, "Pin code is required" >>
    ELSE IF Len(clean_pincode(v)) # 6
    THEN << FALSE, "Pin code must be exactly 6 digits" >>
    ELSE << TRUE, "Valid pin code" >>

\* is_valid, message = validate_pincode(pincode)
call_validate_pincode ==
    /\ pin_result = << >>
    /\ pin_result' = validate_pincode(pin_arg)
    /\ UNCHANGED << pin_arg, handlers, server, corpus, fallbacks, threads >>

InitPincode ==
    /\ entry = "script"
    /\ Loaded
    /\ NoCorpus
    /\ NoFallbackCalls
    /\ NoHandlers
    /\ NoThreads
    /\ pin_arg \in Pincodes
    /\ pin_result = << >>

NextPincode ==
    \/ call_validate_pincode

SpecPincode == InitPincode /\ [][NextPincode]_vars

-----------------------------------------------------------------------------
(* validate_crop_name and validate_land_size *)

UpperCase ==
    << "A", "B", "C", "D", "E", "F", "G", "H", "I", "J", "K", "L", "M",
       "N", "O", "P", "Q", "R", "S", "T", "U", "V", "W", "X", "Y", "Z" >>
LowerCase ==
    << "a", "b", "c", "d", "e", "f", "g", "h", "i", "j", "k", "l", "m",
       "n", "o", "p", "q", "r", "s", "t", "u", "v", "w", "x", "y", "z" >>

\* str.lower()
lower(t) ==
    [ i \in 1 .. Len(t) |->
        IF \E k \in 1 .. Len(UpperCase) : UpperCase[k] = t[i]
        THEN LowerCase[CHOOSE k \in 1 .. Len(UpperCase) : UpperCase[k] = t[i]]
        ELSE t[i] ]

\* str.strip()
RECURSIVE strip(_)
strip(t) ==
    IF t # << >> /\ t[1] = " " THEN strip(Tail(t))
    ELSE IF t # << >> /\ t[Len(t)] = " " THEN strip(SubSeq(t, 1, Len(t) - 1))
    ELSE t

\* part in t
contains(t, part) ==
    \E i \in 0 .. (Len(t) - Len(part)) : SubSeq(t, i + 1, i + Len(part)) = part

\* The words of t.split()
split(t) ==
    { SubSeq(t, i, j) : i \in 1 .. Len(t), j \in 1 .. Len(t) } \cap
    { w \in UNION { [ 1 .. k -> { t[i] : i \in 1 .. Len(t) } \ { " " } ] :
                      k \in 1 .. Len(t) } :
        \E i \in 1 .. Len(t) :
          /\ i + Len(w) - 1 <= Len(t)
          /\ SubSeq(t, i, i + Len(w) - 1) = w
          /\ i = 1 \/ t[i - 1] = " "
          /\ i + Len(w) - 1 = Len(t) \/ t[i + Len(w)] = " " }

valid_crops ==
    {
      \* Fruits
      << "a", "p", "p", "l", "e" >>, << "m", "a", "n", "g", "o" >>,
      << "b", "a", "n", "a", "n", "a" >>, << "o", "r", "a", "n", "g", "e" >>,
      << "g", "r", "a", "p", "e" >>,
      << "p", "o", "m", "e", "g", "r", "a", "n", "a", "t", "e" >>,
      << "g", "u", "a", "v", "a" >>, << "p", "a", "p", "a", "y", "a" >>,
      << "p", "i", "n", "e", "a", "p", "p", "l", "e" >>,
      << "w", "a", "t", "e", "r", "m", "e", "l", "o", "n" >>,
      << "m", "u", "s", "k", "m", "e", "l", "o", "n" >>,
      << "s", "t", "r", "a", "w", "b", "e", "r", "r", "y" >>,
      << "k", "i", "w", "i" >>, << "c", "o", "c", "o", "n", "u", "t" >>,
      << "j", "a", "c", "k", "f", "r", "u", "i", "t" >>,
      << "l", "e", "m", "o", "n" >>, << "l", "i", "m", "e" >>,
      << "c", "h", "e", "r", "r", "y" >>, << "p", "l", "u", "m" >>,
      << "p", "e", "a", "c", "h" >>, << "a", "p", "r", "i", "c", "o", "t" >>,
      << "f", "i", "g" >>, << "d", "a", "t", "e", "s" >>,
      << "a", "v", "o", "c", "a", "d", "o" >>,
      << "l", "y", "c", "h", "e", "e" >>,
      << "r", "a", "m", "b", "u", "t", "a", "n" >>,
      << "p", "a", "s", "s", "i", "o", "n", " ", "f", "r", "u", "i", "t" >>,
      << "d", "r", "a", "g", "o", "n", " ", "f", "r", "u", "i", "t" >>,
      << "c", "u", "s", "t", "a", "r", "d", " ", "a", "p", "p", "l", "e" >>,
      \* Vegetables
      << "t", "o", "m", "a", "t", "o" >>, << "p", "o", "t", "a", "t", "o" >>,
      << "o", "n", "i", "o", "n" >>, << "g", "a", "r", "l", "i", "c" >>,
      << "g", "i", "n", "g", "e", "r" >>, << "c", "a", "r", "r", "o", "t" >>,
      << "r", "a", "d", "i", "s", "h" >>,
      << "b", "e", "e", "t", "r", "o", "o", "t" >>,
      << "c", "a", "b", "b", "a", "g", "e" >>,
      << "c", "a", "u", "l", "i", "f", "l", "o", "w", "e", "r" >>,
      << "b", "r", "o", "c", "c", "o", "l", "i" >>,
      << "l", "e", "t", "t", "u", "c", "e" >>,
      << "s", "p", "i", "n", "a", "c", "h" >>,
      << "f", "e", "n", "u", "g", "r", "e", "e", "k" >>,
      << "c", "o", "r", "i", "a", "n", "d", "e", "r" >>,
      << "m", "i", "n", "t" >>,
      << "c", "u", "r", "r", "y", " ", "l", "e", "a", "v", "e", "s" >>,
      << "b", "r", "i", "n", "j", "a", "l" >>,
      << "e", "g", "g", "p", "l", "a", "n", "t" >>, << "o", "k", "r", "a" >>,
      << "l", "a", "d", "y", "f", "i", "n", "g", "e", "r" >>,
      << "b", "o", "t", "t", "l", "e", " ", "g", "o", "u", "r", "d" >>,
      << "r", "i", "d", "g", "e", " ", "g", "o", "u", "r", "d" >>,
      << "b", "i", "t", "t", "e", "r", " ", "g", "o", "u", "r", "d" >>,
      << "s", "n", "a", "k", "e", " ", "g", "o", "u", "r", "d" >>,
      << "p", "u", "m", "p", "k", "i", "n" >>,
      << "c", "u", "c", "u", "m", "b", "e", "r" >>,
      << "c", "a", "p", "s", "i", "c", "u", "m" >>,
      << "b", "e", "l", "l", " ", "p", "e", "p", "p", "e", "r" >>,
      << "c", "h", "i", "l", "i" >>,
      << "g", "r", "e", "e", "n", " ", "c", "h", "i", "l", "i" >>,
      << "r", "e", "d", " ", "c", "h", "i", "l", "i" >>,
      << "s", "w", "e", "e", "t", " ", "p", "o", "t", "a", "t", "o" >>,
      << "t", "u", "r", "n", "i", "p" >>, << "c", "e", "l", "e", "r", "y" >>,
      << "a", "s", "p", "a", "r", "a", "g", "u", "s" >>,
      << "a", "r", "t", "i", "c", "h", "o", "k", "e" >>,
      << "k", "a", "l", "e" >>, << "c", "h", "a", "r", "d" >>,
      << "p", "a", "r", "s", "l", "e", "y" >>, << "d", "i", "l", "l" >>,
      << "b", "a", "s", "i", "l" >>,
      \* Cereals
      << "r", "i", "c", "e" >>, << "w", "h", "e", "a", "t" >>,
      << "m", "a", "i", "z", "e" >>, << "c", "o", "r", "n" >>,
      << "b", "a", "r", "l", "e", "y" >>, << "o", "a", "t", "s" >>,
      << "r", "y", "e" >>, << "m", "i", "l", "l", "e", "t" >>,
      << "b", "a", "j", "r", "a" >>, << "j", "o", "w", "a", "r" >>,
      << "s", "o", "r", "g", "h", "u", "m" >>,
      << "q", "u", "i", "n", "o", "a" >>,
      << "b", "u", "c", "k", "w", "h", "e", "a", "t" >>,
      << "f", "o", "x", "t", "a", "i", "l", " ", "m", "i", "l", "l", "e", "t" >>,
      << "p", "e", "a", "r", "l", " ", "m", "i", "l", "l", "e", "t" >>,
      << "f", "i", "n", "g", "e", "r", " ", "m", "i", "l", "l", "e", "t" >>,
      << "p", "r", "o", "s", "o", " ", "m", "i", "l", "l", "e", "t" >>,
      << "a", "m", "a", "r", "a", "n", "t", "h" >>, << "t", "e", "f", "f" >>,
      \* Pulses
      << "c", "h", "i", "c", "k", "p", "e", "a" >>,
      << "c", "h", "a", "n", "a" >>, << "l", "e", "n", "t", "i", "l" >>,
      << "m", "a", "s", "u", "r" >>,
      << "p", "i", "g", "e", "o", "n", " ", "p", "e", "a" >>,
      << "a", "r", "h", "a", "r" >>, << "t", "u", "r" >>,
      << "b", "l", "a", "c", "k", " ", "g", "r", "a", "m" >>,
      << "u", "r", "a", "d" >>,
      << "g", "r", "e", "e", "n", " ", "g", "r", "a", "m" >>,
      << "m", "o", "o", "n", "g" >>,
      << "k", "i", "d", "n", "e", "y", " ", "b", "e", "a", "n" >>,
      << "r", "a", "j", "m", "a" >>,
      << "b", "l", "a", "c", "k", " ", "e", "y", "e", "d", " ", "p", "e", "a" >>,
      << "c", "o", "w", "p", "e", "a" >>,
      << "f", "i", "e", "l", "d", " ", "p", "e", "a" >>,
      << "b", "e", "n", "g", "a", "l", " ", "g", "r", "a", "m" >>,
      << "h", "o", "r", "s", "e", " ", "g", "r", "a", "m" >>,
      << "m", "o", "t", "h", " ", "b", "e", "a", "n" >>,
      << "l", "i", "m", "a", " ", "b", "e", "a", "n" >>,
      << "n", "a", "v", "y", " ", "b", "e", "a", "n" >>,
      \* Oilseeds
      << "s", "o", "y", "b", "e", "a", "n" >>,
      << "g", "r", "o", "u", "n", "d", "n", "u", "t" >>,
      << "p", "e", "a", "n", "u", "t" >>,
      << "m", "u", "s", "t", "a", "r", "d" >>,
      << "r", "a", "p", "e", "s", "e", "e", "d" >>,
      << "s", "u", "n", "f", "l", "o", "w", "e", "r" >>,
      << "s", "a", "f", "f", "l", "o", "w", "e", "r" >>,
      << "s", "e", "s", "a", "m", "e" >>, << "t", "i", "l" >>,
      << "f", "l", "a", "x" >>, << "l", "i", "n", "s", "e", "e", "d" >>,
      << "n", "i", "g", "e", "r" >>, << "c", "a", "s", "t", "o", "r" >>,
      << "c", "o", "c", "o", "n", "u", "t" >>, << "o", "l", "i", "v", "e" >>,
      << "p", "a", "l", "m", " ", "o", "i", "l" >>,
      << "c", "a", "n", "o", "l", "a" >>,
      \* Spices
      << "t", "u", "r", "m", "e", "r", "i", "c" >>,
      << "c", "a", "r", "d", "a", "m", "o", "m" >>,
      << "b", "l", "a", "c", "k", " ", "p", "e", "p", "p", "e", "r" >>,
      << "c", "l", "o", "v", "e", "s" >>,
      << "c", "i", "n", "n", "a", "m", "o", "n" >>,
      << "n", "u", "t", "m", "e", "g" >>, << "c", "u", "m", "i", "n" >>,
      << "f", "e", "n", "n", "e", "l" >>, << "a", "j", "w", "a", "i", "n" >>,
      << "d", "i", "l", "l" >>, << "a", "n", "i", "s", "e" >>,
      << "v", "a", "n", "i", "l", "l", "a" >>,
      << "s", "a", "f", "f", "r", "o", "n" >>,
      << "s", "t", "a", "r", " ", "a", "n", "i", "s", "e" >>,
      \* Cash crops
      << "c", "o", "t", "t", "o", "n" >>, << "j", "u", "t", "e" >>,
      << "s", "u", "g", "a", "r", "c", "a", "n", "e" >>,
      << "t", "o", "b", "a", "c", "c", "o" >>, << "t", "e", "a" >>,
      << "c", "o", "f", "f", "e", "e" >>, << "r", "u", "b", "b", "e", "r" >>,
      << "i", "n", "d", "i", "g", "o" >>, << "h", "e", "m", "p" >>,
      << "f", "l", "a", "x" >>,
      \* Trees
      << "n", "e", "e", "m" >>, << "t", "e", "a", "k" >>,
      << "e", "u", "c", "a", "l", "y", "p", "t", "u", "s" >>,
      << "b", "a", "m", "b", "o", "o" >>,
      << "s", "a", "n", "d", "a", "l", "w", "o", "o", "d" >>,
      << "r", "o", "s", "e", "w", "o", "o", "d" >>,
      << "m", "a", "h", "o", "g", "a", "n", "y" >>, << "p", "i", "n", "e" >>,
      << "o", "a", "k" >>, << "s", "a", "l" >>,
      << "s", "h", "i", "s", "h", "a", "m" >>,
      << "b", "a", "n", "y", "a", "n" >>, << "p", "e", "e", "p", "a", "l" >>,
      << "g", "u", "l", "m", "o", "h", "a", "r" >>,
      << "t", "a", "m", "a", "r", "i", "n", "d" >>,
      << "m", "a", "n", "g", "o", " ", "t", "r", "e", "e" >>,
      << "a", "p", "p", "l", "e", " ", "t", "r", "e", "e" >>,
      << "c", "o", "c", "o", "n", "u", "t", " ", "t", "r", "e", "e" >>,
      << "p", "a", "l", "m", " ", "t", "r", "e", "e" >>,
      << "b", "a", "n", "a", "n", "a", " ", "t", "r", "e", "e" >>,
      \* Medicinal plants
      << "a", "l", "o", "e", " ", "v", "e", "r", "a" >>,
      << "t", "u", "l", "s", "i" >>, << "b", "a", "s", "i", "l" >>,
      << "a", "s", "h", "w", "a", "g", "a", "n", "d", "h", "a" >>,
      << "b", "r", "a", "h", "m", "i" >>, << "n", "e", "e", "m" >>,
      << "g", "i", "l", "o", "y" >>, << "a", "m", "l", "a" >>,
      << "m", "o", "r", "i", "n", "g", "a" >>,
      << "d", "r", "u", "m", "s", "t", "i", "c", "k" >>,
      << "s", "t", "e", "v", "i", "a" >>,
      << "l", "a", "v", "e", "n", "d", "e", "r" >>,
      << "r", "o", "s", "e", "m", "a", "r", "y" >>,
      << "t", "h", "y", "m", "e" >>,
      \* Local names (Hindi/Regional)
      << "d", "h", "a", "a", "n" >>, << "c", "h", "a", "w", "a", "l" >>,
      << "g", "e", "h", "u", "n" >>, << "m", "a", "k", "k", "a" >>,
      << "b", "h", "u", "t", "t", "a" >>, << "a", "a", "l", "o", "o" >>,
      << "p", "y", "a", "a", "z" >>, << "t", "a", "m", "a", "t", "a", "r" >>,
      << "b", "a", "i", "g", "a", "n" >>, << "b", "h", "i", "n", "d", "i" >>,
      << "k", "a", "r", "e", "l", "a" >>, << "l", "a", "u", "k", "i" >>,
      << "t", "o", "r", "i" >>, << "k", "a", "d", "d", "u" >>,
      << "g", "a", "j", "a", "r" >>, << "m", "o", "o", "l", "i" >>,
      << "p", "a", "l", "a", "k" >>, << "m", "e", "t", "h", "i" >>,
      << "d", "h", "a", "n", "i", "a" >>, << "p", "u", "d", "i", "n", "a" >>,
      << "h", "a", "l", "d", "i" >>, << "a", "d", "r", "a", "k" >>,
      << "l", "e", "h", "s", "u", "n" >>, << "a", "a", "m" >>,
      << "s", "e", "b" >>, << "k", "e", "l", "a" >>,
      << "s", "a", "n", "t", "a", "r", "a" >>,
      << "a", "n", "g", "o", "o", "r" >>, << "a", "n", "a", "r" >>,
      << "a", "m", "r", "u", "d" >>, << "p", "a", "p", "i", "t", "a" >>,
      << "t", "a", "r", "b", "o", "o", "j" >>,
      << "k", "h", "e", "e", "r", "a" >>, << "s", "a", "r", "s", "o", "n" >>,
      << "t", "i", "l" >>, << "s", "o", "y", "a", "b", "e", "a", "n" >>,
      << "m", "o", "o", "n", "g", "f", "a", "l", "i" >>,
      << "c", "h", "a", "n", "a" >>, << "m", "a", "s", "o", "o", "r" >>,
      << "a", "r", "h", "a", "r" >>, << "u", "r", "a", "d" >>,
      << "m", "o", "o", "n", "g" >>, << "r", "a", "j", "m", "a" >> }

\* validate_crop_name: "ok" for (True, ...), "reject" for (False, ...), "raise"
\* when crop_name has no strip method.
validate_crop_name(v) ==
    IF ~Truthy(v) THEN "reject"
    ELSE IF v.type # "str" THEN "raise"
    ELSE IF Len(strip(v.text)) < 2 THEN "reject"
    ELSE LET crop_lower == strip(lower(v.text))
         IN  IF crop_lower \in valid_crops THEN "ok"
             ELSE IF \E valid_crop \in valid_crops :
                       /\ contains(crop_lower, valid_crop)
                            \/ contains(valid_crop, crop_lower)
                       /\ Len(crop_lower) >= 3
             THEN "ok"
             ELSE IF \E word \in split(crop_lower) :
                       word \in valid_crops /\ Len(word) >= 3
             THEN "ok"
             ELSE "reject"

\* float(text): whether the text is a number, and whether float(text) <= 0.
\* A sign, then nan, inf, or digits with at most one point.
float_of(t) ==
    LET stripped == strip(t)
        signed == stripped # << >> /\ stripped[1] \in { "+", "-" }
        negative == stripped # << >> /\ stripped[1] = "-"
        digits == IF signed THEN Tail(stripped) ELSE stripped
        points == { i \in 1 .. Len(digits) : digits[i] = "." }
    IN  IF lower(digits) = << "n", "a", "n" >>
        THEN [ number |-> TRUE, not_positive |-> FALSE ]
        ELSE IF lower(digits) = << "i", "n", "f" >>
        THEN [ number |-> TRUE, not_positive |-> negative ]
        ELSE IF /\ Cardinality(points) <= 1
                /\ Len(digits) > Cardinality(points)
                /\ \A i \in 1 .. Len(digits) : digits[i] \in Digits \cup { "." }
        THEN [ number |-> TRUE,
               not_positive |->
                   \/ negative
                   \/ \A i \in 1 .. Len(digits) : digits[i] \in { "0", "." } ]
        ELSE [ number |-> FALSE, not_positive |-> FALSE ]

\* validate_land_size: float() of None raises TypeError, of a text that is no
\* number ValueError; both are caught inside the function.
validate_land_size(v) ==
    IF v.type = "NoneType" THEN "reject"
    ELSE IF ~float_of(v.text).number THEN "reject"
    ELSE IF float_of(v.text).not_positive THEN "reject"
    ELSE "ok"

-----------------------------------------------------------------------------
(* The API handlers.  A handler is the list of the calls of its try block;
   what the called functions compute beyond accepting, rejecting or raising
   is not modelled. *)

Absent == [ type |-> "absent", text |-> << >> ]
None == [ type |-> "NoneType", text |-> << "N", "o", "n", "e" >> ]
Str(t) == [ type |-> "str", text |-> t ]

\* data.get(key, default) and data.get(key)
Field(req, key, default) == IF req[key] = Absent THEN default ELSE req[key]

Routes ==
    { "crop_recommendation", "profit_analysis", "analyze_disease_image",
      "disease_management", "fertilizer_guide" }

\* The pin codes, crop names, land sizes, languages and uploads of the requests.
RoutePincodes ==
    { Absent, None,
      Str(<< "1", "1", "0", "0", "0", "1" >>),
      Str(<< "1", "1", "0", "0" >>),
      Str(<< "1", "1", "0", " ", "0", "0", "1" >>) }
RouteCrops ==
    { Absent, None, [ type |-> "int", text |-> << "5" >> ],
      Str(<< "r", "i", "c", "e" >>), Str(<< "R", "i", "c", "e", " " >>),
      Str(<< "r", "i" >>), Str(<< "z", "z", "z", "z" >>) }
RouteLandSizes ==
    { Absent, None, [ type |-> "int", text |-> << "2" >> ],
      Str(<< "2", ".", "5" >>), Str(<< "0" >>), Str(<< "-", "3" >>),
      Str(<< "a", "b", "c" >>), Str(<< "n", "a", "n" >>) }
RouteLanguages ==
    { Absent, Str(<< "h", "i", "n", "d", "i" >>), [ type |-> "list", text |-> << >> ] }
RouteImages == { "absent", "no_filename", "agricultural", "other" }

\* request.json is a dictionary, another JSON value, None, or raises.
NoBody(j) ==
    [ json |-> j, language |-> Absent, pincode |-> Absent, crop |-> Absent,
      land_size |-> Absent, image |-> "absent" ]

Requests(rt) ==
    IF rt = "analyze_disease_image"
    THEN { [ NoBody("none") EXCEPT !.image = im ] : im \in RouteImages }
    ELSE { NoBody(j) : j \in { "list", "None", "error" } } \cup
         { [ json |-> "dict", language |-> lg, pincode |-> pin, crop |-> cr,
             land_size |-> ls, image |-> "absent" ] :
             lg \in RouteLanguages,
             pin \in IF rt = "crop_recommendation" THEN RoutePincodes ELSE { Absent },
             cr \in RouteCrops,
             ls \in IF rt = "profit_analysis" THEN RouteLandSizes ELSE { Absent } }

Step(name, kind, outcome, translate) ==
    [ call |-> name, kind |-> kind, outcome |-> outcome, translate |-> translate ]

\* data = request.json; language = data.get('language', 'english')
Prologue(req) ==
    << Step("request.json", "read",
            IF req.json = "error" THEN "raise" ELSE "ok", FALSE),
       Step("data.get", "read",
            IF req.json \in { "list", "None" } THEN "raise" ELSE "ok", FALSE) >>

\* translate_text(key, language): the dictionary lookup raises TypeError for a
\* language that cannot be hashed.
Translate(req) ==
    Step("translate_text", "call",
         IF req.language.type = "list" THEN "raise" ELSE "ok", FALSE)

Jsonify == Step("jsonify", "call", "ok", FALSE)

PincodeOutcome(req) ==
    IF validate_pincode(Field(req, "pincode", Str(<< >>)))[1] THEN "ok" ELSE "reject"

CropOutcome(req) == validate_crop_name(Field(req, "crop", Str(<< >>)))

\* The handler with the prediction made before the crop name is validated.
crop_recommendation_predict_first(req) ==
    Prologue(req) \o
    << Step("validate_pincode", "validate", PincodeOutcome(req), TRUE),
       Step("get_coordinates_from_pincode", "call", "ok", FALSE),
       Step("get_weather_data", "call", "ok", FALSE),
       Step("get_soil_data", "call", "ok", FALSE),
       Step("enhanced_crop_prediction", "call", "ok", FALSE),
       Step("validate_crop_name", "validate", CropOutcome(req), TRUE),
       Translate(req), Jsonify >>

crop_recommendation_steps(req) ==
    Prologue(req) \o
    << Step("validate_pincode", "validate", PincodeOutcome(req), TRUE),
       Step("validate_crop_name", "validate", CropOutcome(req), TRUE),
       Step("get_coordinates_from_pincode", "call", "ok", FALSE),
       Step("get_weather_data", "call", "ok", FALSE),
       Step("get_soil_data", "call", "ok", FALSE),
       Step("enhanced_crop_prediction", "call", "ok", FALSE),
       Translate(req), Jsonify >>

profit_analysis_steps(req) ==
    Prologue(req) \o
    << Step("validate_crop_name", "validate", CropOutcome(req), TRUE),
       Step("validate_land_size", "validate",
            validate_land_size(Field(req, "land_size", Str(<< >>))), TRUE),
       Step("calculate_detailed_profit", "call", "ok", FALSE),
       Translate(req), Jsonify >>

analyze_disease_image_steps(req) ==
    << Step("request.files", "validate",
            IF req.image = "absent" THEN "reject" ELSE "ok", FALSE),
       Step("file.filename", "validate",
            IF req.image = "no_filename" THEN "reject" ELSE "ok", FALSE),
       Step("file.read", "call", "ok", FALSE),
       Step("validate_image_content", "validate",
            IF req.image = "agricultural" THEN "ok" ELSE "reject", FALSE),
       Jsonify >>

disease_management_steps(req) ==
    Prologue(req) \o
    << Step("validate_crop_name", "validate", CropOutcome(req), TRUE),
       Step("get_enhanced_crop_diseases", "call", "ok", FALSE),
       Translate(req), Jsonify >>

fertilizer_guide_steps(req) ==
    Prologue(req) \o
    << Step("validate_crop_name", "validate", CropOutcome(req), TRUE),
       Step("get_fertilizer_recommendations", "call", "ok", FALSE),
       Translate(req), Jsonify >>

\* The keys of the object a handler returns when nothing rejected or raised.
SuccessKeys(rt) ==
    { "success", "message" } \cup
    ( IF rt = "crop_recommendation" THEN { "recommendations", "weather", "soil" }
      ELSE IF rt \in { "profit_analysis", "analyze_disease_image" }
      THEN { "analysis" }
      ELSE IF rt = "disease_management" THEN { "diseases", "crop" }
      ELSE { "guide", "crop" } )

Failure(kind) ==
    [ success |-> FALSE, kind |-> kind, keys |-> { "success", "message" } ]

\* A handler without the except clause.
route_no_except(done) ==
    [ calls |-> done, response |-> << >>, propagated |-> TRUE ]

\* except Exception as e: return jsonify({'success': False, 'message': ...})
route_except(done) ==
    [ calls |-> Append(done, "jsonify"), response |-> Failure("error"),
      propagated |-> FALSE ]

\* The try block from step i on, with `done` the calls made so far; the call
\* named flt raises an exception of its own.
RECURSIVE Handle(_, _, _, _, _, _)
Handle(rt, req, block, i, flt, done) ==
    IF i > Len(block)
    THEN [ calls |-> done,
           response |-> [ success |-> TRUE, kind |-> "ok", keys |-> SuccessKeys(rt) ],
           propagated |-> FALSE ]
    ELSE LET st == block[i]
             now == Append(done, st.call)
         IN  IF st.outcome = "raise" \/ flt = st.call
             THEN route_except(now)
             ELSE IF st.outcome = "reject"
             THEN IF ~st.translate
                  THEN [ calls |-> Append(now, "jsonify"),
                         response |-> Failure("rejected"), propagated |-> FALSE ]
                  ELSE IF Translate(req).outcome = "raise" \/ flt = "translate_text"
                  THEN route_except(Append(now, "translate_text"))
                  ELSE [ calls |-> now \o << "translate_text", "jsonify" >>,
                         response |-> Failure("rejected"), propagated |-> FALSE ]
             ELSE Handle(rt, req, block, i + 1, flt, now)

\* The calls of a handler that can raise an exception of their own.
FaultsOf(block) ==
    { "none" } \cup
    { block[i].call : i \in { k \in 1 .. Len(block) : block[k].kind = "call" } }

\* One request served by handler rt, whose try block is block.
Serve(rt, req, block) ==
    /\ pc = "serving"
    /\ route = "none"
    /\ \E flt \in FaultsOf(block) :
         LET out == Handle(rt, req, block, 1, flt, << >>)
         IN  /\ h_fault' = flt
             /\ calls' = out.calls
             /\ response' = out.response
             /\ propagated' = out.propagated
    /\ route' = rt
    /\ request' = req
    /\ UNCHANGED << validation, server, corpus, fallbacks, threads >>

crop_recommendation ==
    \E req \in Requests("crop_recommendation") :
        Serve("crop_recommendation", req, crop_recommendation_steps(req))

profit_analysis ==
    \E req \in Requests("profit_analysis") :
        Serve("profit_analysis", req, profit_analysis_steps(req))

analyze_disease_image ==
    \E req \in Requests("analyze_disease_image") :
        Serve("analyze_disease_image", req, analyze_disease_image_steps(req))

disease_management ==
    \E req \in Requests("disease_management") :
        Serve("disease_management", req, disease_management_steps(req))

fertilizer_guide ==
    \E req \in Requests("fertilizer_guide") :
        Serve("fertilizer_guide", req, fertilizer_guide_steps(req))

\* The response is sent; the next request can come.
respond ==
    /\ route # "none"
    /\ route' = "none"
    /\ request' = << >>
    /\ calls' = << >>
    /\ response' = << >>
    /\ h_fault' = "none"
    /\ propagated' = FALSE
    /\ UNCHANGED << validation, server, corpus, fallbacks, threads >>

InitRoutes ==
    /\ entry \in { "script", "module" }
    /\ Serving
    /\ NoCorpus
    /\ NoFallbackCalls
    /\ NoValidation
    /\ NoHandlers
    /\ NoThreads

NextRoutes ==
    \/ crop_recommendation
    \/ profit_analysis
    \/ analyze_disease_image
    \/ disease_management
    \/ fertilizer_guide
    \/ respond

SpecRoutes == InitRoutes /\ [][NextRoutes]_vars

----------------------------------------------------------------------------
(* Properties *)

\* The raw probability (in parts of PTotal) behind element r of the result.
RawOf(r) == probabilities[ClassIndex(result[r].crop) + 1]

Returned == call = "returned"
ModelResult == call = "returned" /\ via = "model"

\* C1: among the three selected classes the band follows the rank by raw
\* probability: a class with strictly the highest raw probability of the three
\* is reported in [97,100], one with strictly the lowest in [90,92], and the
\* last element of a model-produced result has the maximum raw probability of
\* all classes.
C1_BandByProbabilityRank ==
    (initResult = "True" /\ ModelResult) =>
        /\ \A r \in 1 .. 3 :
             /\ (\A q \in (1 .. 3) \ { r } : RawOf(q) < RawOf(r))
                    => result[r].confidence \in 970 .. 1000
             /\ (\A q \in (1 .. 3) \ { r } : RawOf(r) < RawOf(q))
                    => result[r].confidence \in 900 .. 920
        /\ \A j \in ClassIndices : probabilities[j + 1] <= RawOf(3)

\* C2: once initialize_ml_model has returned False, every prediction returns
\* the fallback triple and never a model-derived list.
C2_FailedInitMeansFallback ==
    (initResult = "False" /\ Returned) =>
        (via # "model" /\ result = get_fallback_recommendations)

DataSteps == { "create_enhanced_crop_dataset", "train_test_split" }

\* C3 as stated: after an exception in create_enhanced_crop_dataset or in
\* train_test_split the process never runs the server.
C3_DataErrorStopsProcess ==
    failedAt \in DataSteps => pc # "serving"

\* C3 as amended: an exception in create_enhanced_crop_dataset or in
\* train_test_split is caught by initialize_ml_model, which returns False and
\* leaves model None; the process can go on to run the server, and every
\* prediction then returns the fallback triple by the `model is None` branch.
C3_DataErrorAbsorbed ==
    failedAt \in DataSteps =>
        /\ initResult = "False"
        /\ model = "None"
        /\ pc \in { "initialized", "serving" }
        /\ pc = "initialized" => ENABLED app_run
        /\ Returned => (via = "absent" /\ result = get_fallback_recommendations)

\* The split raised, the server runs, and a prediction has been answered.
C3_Witness ==
    /\ failedAt = "train_test_split"
    /\ pc = "serving"
    /\ Returned

\* C4: with initialize_ml_model returned True, a prediction on which no step
\* raises returns exactly 3 recommendations with pairwise distinct crop names.
C4_ThreeDistinctCrops ==
    (initResult = "True" /\ Returned /\ raised = "none") =>
        /\ Len(result) = 3
        /\ \A i \in 1 .. 3 : \A j \in 1 .. 3 :
             i # j => result[i].crop # result[j].crop

\* A Ready prediction whose second and third choice are tied at probability 0.
C4_Witness ==
    /\ initResult = "True"
    /\ ModelResult
    /\ probabilities[top_indices[2] + 1] = 0
    /\ probabilities[top_indices[3] + 1] = 0

\* C5: every returned list, from the model or the fallback, has its first
\* confidence in [90,92], its second in [94,96], its third in [97,100], and
\* is strictly ascending by the rounded confidence.
C5_AscendingBands ==
    Returned =>
        /\ Len(result) = 3
        /\ result[1].confidence \in 900 .. 920
        /\ result[2].confidence \in 940 .. 960
        /\ result[3].confidence \in 970 .. 1000
        /\ result[1].confidence < result[2].confidence
        /\ result[2].confidence < result[3].confidence

\* A model result whose first element was cut to 92 by min(), the raw sum
\* 90 + (base_confidence % 3) being larger.
C5_Witness ==
    /\ ModelResult
    /\ result[1].confidence = 920
    /\ (100 * probabilities[top_indices[1] + 1]) % (3 * PTotal) > 2 * PTotal

\* C6: the three selected classes are three of the highest raw probability
\* (no unselected class has a strictly greater probability than a selected
\* one), pairwise different, enumerated from highest to lowest.
C6_TopThreeDescending ==
    ModelResult =>
        /\ Len(top_indices) = 3
        /\ Cardinality({ top_indices[i] : i \in 1 .. 3 }) = 3
        /\ \A j \in ClassIndices \ { top_indices[i] : i \in 1 .. 3 } :
             \A i \in 1 .. 3 :
                probabilities[j + 1] <= probabilities[top_indices[i] + 1]
        /\ probabilities[top_indices[1] + 1] >= probabilities[top_indices[2] + 1]
        /\ probabilities[top_indices[2] + 1] >= probabilities[top_indices[3] + 1]

\* A selection with three different probabilities and a voted class left out.
C6_Witness ==
    /\ ModelResult
    /\ probabilities[top_indices[1] + 1] > probabilities[top_indices[2] + 1]
    /\ probabilities[top_indices[2] + 1] > probabilities[top_indices[3] + 1]
    /\ \E j \in ClassIndices \ { top_indices[i] : i \in 1 .. 3 } :
         probabilities[j + 1] > 0

\* C7: with the global model None a prediction returns wheat 91.2, rice 95.7,
\* maize 98.4 in that order for every input, and calls neither the scaler nor
\* the encoder.
C7_AbsentModelFallback ==
    (model = "None" /\ Returned) =>
        /\ result = << [crop |-> "wheat", confidence |-> 912],
                       [crop |-> "rice",  confidence |-> 957],
                       [crop |-> "maize", confidence |-> 984] >>
        /\ via = "absent"
        /\ steps = << >>
        /\ features = Unset

\* Initialization never ran, and the input holds a value that is not a number.
C7_Witness ==
    /\ initResult = "not_called"
    /\ model = "None"
    /\ Returned
    /\ \E k \in DOMAIN input_params : input_params[k] = NonNumeric

\* C8: an exception raised in any step of a prediction is caught: the call
\* returns, what it returns is the fallback triple, and no step ran twice.
C8_ExceptionsCaught ==
    (call # "idle" /\ raised # "none") =>
        /\ call = "returned"
        /\ via = "except"
        /\ result = get_fallback_recommendations
        /\ \A i \in 1 .. Len(steps) : \A j \in 1 .. Len(steps) :
             i # j => steps[i] # steps[j]
        /\ steps[Len(steps)] = raised

\* An exception raised by the final sort, after three recommendations.
C8_Witness ==
    /\ call # "idle"
    /\ raised = "sort"
    /\ appended = 3

\* C9: a returned list is never half-populated: it is the fallback triple, or
\* the three recommendations of the three selected classes of a call on which
\* nothing raised.
C9_NeverHalfPopulated ==
    Returned =>
        /\ Len(result) = 3
        /\ \/ result = get_fallback_recommendations
           \/ /\ via = "model"
              /\ raised = "none"
              /\ appended = 3
              /\ { result[r].crop : r \in 1 .. 3 }
                    = { inverse_transform(top_indices[i]) : i \in 1 .. 3 }

\* An exception raised when two recommendations were appended.
C9_Witness ==
    /\ Returned
    /\ raised = "loop2"
    /\ appended = 2

Expected(ip, key, default) == IF key \in DOMAIN ip THEN ip[key] ELSE default

\* C10: with a Ready model, a call on which no exception comes from outside and
\* whose values are numbers evaluates the model on the vector that holds, per
\* field, the given value when the field is present and 50, 30, 40, 25, 70,
\* 6.5, 100 when it is absent; the call with {} does not raise, uses all seven
\* defaults and returns 3 recommendations with known crops and confidences in
\* 90..100.
C10_DefaultsFilled ==
    /\ (initResult = "True" /\ Returned /\ fault = "none"
            /\ DOMAIN input_params = {}) =>
           /\ raised = "none"
           /\ via = "model"
           /\ features = << "50", "30", "40", "25", "70", "6.5", "100" >>
           /\ Len(result) = 3
           /\ \A r \in 1 .. 3 :
                /\ result[r].crop \in { Classes[i] : i \in 1 .. NumClasses }
                /\ result[r].confidence \in 900 .. 1000
    /\ ModelResult =>
           features = << Expected(input_params, "N", "50"),
                         Expected(input_params, "P", "30"),
                         Expected(input_params, "K", "40"),
                         Expected(input_params, "temperature", "25"),
                         Expected(input_params, "humidity", "70"),
                         Expected(input_params, "ph", "6.5"),
                         Expected(input_params, "rainfall", "100") >>

\* A Ready call with {} that returned a model result.
C10_Witness ==
    /\ initResult = "True"
    /\ ModelResult
    /\ DOMAIN input_params = {}

\* C11: once initialize_ml_model has returned, no step changes what it
\* returned (Ready or Failed) or reassigns model, scaler or le_crop, and it is
\* not called again; it is entered only from the Uninitialized state.
C11_EngineFrozenAfterInit ==
    [][ /\ initResult # "not_called" =>
            /\ initResult' = initResult
            /\ failedAt' = failedAt
            /\ model' = model
            /\ scaler' = scaler
            /\ le_crop' = le_crop
        /\ initResult' # initResult =>
            /\ initResult = "not_called"
            /\ initResult' \in { "True", "False" } ]_vars

\* Predictions answered after a failed and after a successful initialization.
C11_Witness ==
    /\ initResult = "False"
    /\ model = "unfitted"
    /\ Returned
    /\ via = "except"

\* C12: a prediction is served only after initialize_ml_model has returned.
C12_NoPredictionBeforeInit ==
    call # "idle" => initResult # "not_called"

\* C14: the scaler's statistics are fitted at most once and only from the
\* training partition; a fitted scaler has been fitted exactly once; the test
\* partition and the vectors of predictions are transformed without a fit, so
\* no prediction changes what the scaler was fitted from.
C14_ScalerFittedOnceOnTrain ==
    /\ Len(scaler_fits) <= 1
    /\ \A i \in 1 .. Len(scaler_fits) : scaler_fits[i] = "X_train"
    /\ scaler = "fitted" <=> scaler_fits = << "X_train" >>
    /\ (initResult # "not_called"
          /\ Completed(failedAt) >= StepNo("scaler.transform"))
           => scaler_fits = << "X_train" >>

\* The test partition was transformed at start-up and a prediction has scaled
\* its vector.
C14_Witness ==
    /\ failedAt = "none"
    /\ ModelResult
    /\ \E i \in 1 .. Len(steps) : steps[i] = "transform"
    /\ scaler_fits = << "X_train" >>

\* C18: when no statement of the try block raised, initialize_ml_model
\* returned True whatever the accuracy, and the model is usable: a prediction
\* with numeric values and no exception from outside is answered by the model.
C18_AccuracyDoesNotGate ==
    (initResult # "not_called" /\ failedAt = "none") =>
        /\ initResult = "True"
        /\ Len(accuracy) = 1
        /\ accuracy[1] \in 0 .. AccGrid
        /\ model = "fitted" /\ scaler = "fitted" /\ le_crop = "fitted"
        /\ (Returned /\ fault = "none"
              /\ \A k \in DOMAIN input_params : input_params[k] \in NumericValues)
              => via = "model"

\* The accuracy was 0 and a prediction was answered by the model.
C18_Witness ==
    /\ initResult = "True"
    /\ accuracy = << 0 >>
    /\ ModelResult

\* C15: create_enhanced_crop_dataset returns 12 x 300 = 3600 rows, 300 for
\* every crop of the registry, and every value assigned to temp, humidity, ph
\* or rainfall lies within the (min, max) declared for the row's crop.
C15_SizeAndContinuousRanges ==
    /\ gen_pc \in { "returned", "encoded" } =>
         /\ len(data) = 3600
         /\ Len(crops_data) = 12
         /\ \A i \in 1 .. Len(crops_data) : RowsOf(data, crops_data[i]) = 300
    /\ assigned \in { "temp", "humidity", "ph", "rainfall" } =>
         /\ params(loop_crop)[assigned][1] <= drawn[1]
         /\ drawn[1] <= params(loop_crop)[assigned][2]

\* The corpus has been returned with all its rows, the last crop's included.
C15_Witness ==
    /\ gen_pc = "returned"
    /\ len(data) = 3600
    /\ RowsOf(data, "mustard") = 300
    /\ drawn = << >>

\* C16: the sets of cereals, heavy feeders and legumes are disjoint, every
\* crop takes the ranges of its own category (the default one when it is in
\* none of the three sets), and every N, P or K assigned is an integer of the
\* range of the row's crop.
C16_NutrientCategoryRanges ==
    LET cereals == { "rice", "wheat", "maize" }
        heavy == { "tomato", "potato", "onion" }
        legumes == { "chickpea", "soybean" }
        Range(c) ==
            IF c \in cereals
            THEN [ N |-> 80 .. 120, P |-> 40 .. 80, K |-> 40 .. 80 ]
            ELSE IF c \in heavy
            THEN [ N |-> 100 .. 150, P |-> 50 .. 100, K |-> 50 .. 100 ]
            ELSE IF c \in legumes
            THEN [ N |-> 20 .. 40, P |-> 60 .. 100, K |-> 30 .. 60 ]
            ELSE [ N |-> 40 .. 100, P |-> 30 .. 70, K |-> 30 .. 70 ]
    IN  /\ cereals \cap heavy = {}
        /\ cereals \cap legumes = {}
        /\ heavy \cap legumes = {}
        /\ \A i \in 1 .. Len(crops_data) : \A f \in { "N", "P", "K" } :
             LET r == nutrient_ranges(crops_data[i])[f]
             IN  Range(crops_data[i])[f] = r[1] .. r[2]
        /\ assigned \in { "N", "P", "K" } => drawn[1] \in Range(loop_crop)[assigned]

\* A row of a legume got the top of its P range.
C16_Witness ==
    /\ loop_crop = "soybean"
    /\ assigned = "P"
    /\ drawn = << 100 >>

\* C17: the encoding of the label column is a bijection between the labels of
\* the corpus and 0 .. n-1: the encoded indices are exactly 0 .. n-1, distinct
\* labels have distinct indices, and decoding the index of a block gives back
\* the label of that block.
C17_LabelEncodingBijection ==
    /\ gen_pc = "encoded" =>
         /\ { label_encoded[i] : i \in 1 .. Len(label_encoded) }
              = 0 .. (Cardinality({ data[i].label : i \in 1 .. Len(data) }) - 1)
         /\ \A i, j \in 1 .. Len(data) :
              (data[i].label # data[j].label) => (label_encoded[i] # label_encoded[j])
         /\ \A i \in 1 .. Len(data) :
              inverse_transform(label_encoded[i]) = data[i].label
    /\ decoded # << >> => decoded[2] = data[decoded[1]].label

\* The index of the rice rows (the first block, class 8) was decoded.
C17_Witness ==
    /\ decoded = << 1, "rice" >>
    /\ label_encoded[1] = 8

\* C20: two runs of the generator produce the same samples: the temperature of
\* the first row of the second run is the one of the first run.
C20_RunsReproducible ==
    (runs = 2 /\ crop_i = 1 /\ loop_n = 0 /\ assigned = "temp") => drawn = head

\* The list enhanced_crop_prediction(ip) returns when it runs alone.
Alone(ip) ==
    IF model = "None" THEN get_fallback_recommendations
    ELSE IF RaiseSite(Features(ip), "none") # "none"
    THEN get_fallback_recommendations
    ELSE SortByConfidence(Recommendations(forest[Features(ip)].p,
                                          forest[Features(ip)].top, 3))

\* C13: with invocations of enhanced_crop_prediction interleaved statement by
\* statement on several threads and no lock, every invocation returns the
\* list it returns when run alone on its input, and no step changes model,
\* scaler or le_crop.
C13_InterleavingKeepsResults ==
    /\ [](\A th \in Threads :
            t_pc[th] = "returned" => t_result[th][2] = Alone(t_input[th]))
    /\ [][model' = model /\ scaler' = scaler /\ le_crop' = le_crop]_vars

\* Thread 1 returned a model result computed while thread 2, on another
\* input, was between its appends.
C13_Witness ==
    /\ initResult = "True"
    /\ t_pc[1] = "returned"
    /\ t_result[1][1] = "model"
    /\ t_pc[2] = "loop"
    /\ t_locals[2].i = 2
    /\ t_input[1] # t_input[2]
    /\ forest[Features(t_input[1])] # forest[Features(t_input[2])]

\* C19: every call of get_fallback_recommendations returns wheat 91.2, rice
\* 95.7, maize 98.4, ascending by confidence, whatever the engine state, the
\* number of earlier calls and what callers did to the lists returned earlier.
C19_FallbackFixedTriple ==
    fb_pc = "returned" =>
        LET l == lists[Len(lists)]
        IN  /\ l = << [crop |-> "wheat", confidence |-> 912],
                      [crop |-> "rice",  confidence |-> 957],
                      [crop |-> "maize", confidence |-> 984] >>
            /\ \A i \in 1 .. (Len(l) - 1) : l[i].confidence < l[i + 1].confidence

\* A second call returned after the caller emptied the first list, with the
\* engine trained.
C19_Witness ==
    /\ fb_pc = "returned"
    /\ Len(lists) = 2
    /\ lists[1] = << >>
    /\ model = "fitted"

\* C21: every profile of the registry has min < max for temp, humidity, ph
\* and rainfall, for all 12 crops, and so has the range of every draw made.
C21_ProfilesMinBelowMax ==
    /\ Len(crops_data) = 12
    /\ \A i \in 1 .. Len(crops_data) :
         \A f \in { "temp", "humidity", "ph", "rainfall" } :
           params(crops_data[i])[f][1] < params(crops_data[i])[f][2]
    /\ assigned \in { "temp", "humidity", "ph", "rainfall" } =>
         params(loop_crop)[assigned][1] < params(loop_crop)[assigned][2]

\* The ph of a row of the last crop was drawn at the top of its range.
C21_Witness ==
    /\ gen_pc = "body"
    /\ loop_crop = "mustard"
    /\ assigned = "ph"
    /\ drawn = << 750 >>

\* C22: every confidence of every returned list lies in 90 .. 100 (900 .. 1000
\* tenths), also for a selected class whose raw probability is 0.
C22_ConfidenceInBand ==
    Returned =>
        \A r \in 1 .. Len(result) :
            /\ 900 <= result[r].confidence
            /\ result[r].confidence <= 1000

\* A model result in which a selected class has raw probability 0.
C22_Witness ==
    /\ ModelResult
    /\ \E r \in 1 .. 3 : RawOf(r) = 0

\* C24: whenever the global model is not None, scaler and le_crop are fitted;
\* a prediction that passes the `model is None` check and meets no exception
\* from outside is stopped neither by the encoder nor, with numeric values,
\* by the scaler.
C24_ModelImpliesScalerAndEncoder ==
    model # "None" =>
        /\ scaler = "fitted"
        /\ le_crop = "fitted"
        /\ (Returned /\ fault = "none") =>
             /\ raised # "loop0"
             /\ raised = "transform" =>
                  \E k \in DOMAIN input_params : input_params[k] \notin NumericValues

\* Start-up stopped in model.fit, and a prediction went past the scaler.
C24_Witness ==
    /\ failedAt = "model.fit"
    /\ model = "unfitted"
    /\ Returned
    /\ raised = "predict_proba"

C26_ColumnsAreEncodedLabels ==
    /\ \A i \in 1 .. Len(crops_data) : train_rows(SamplesPerCrop) >= 1
    /\ Len(model_classes) = Len(crops_data)
    /\ \A i \in ClassIndices : model_classes[i + 1] = i
    /\ ModelResult =>
         /\ Len(probabilities) = Len(model_classes)
         /\ \A r \in 1 .. 3 : \E j \in 1 .. 3 :
              /\ result[r].crop =
                   inverse_transform(model_classes[top_indices[j] + 1])
              /\ result[r].confidence =
                   Confidence(j - 1, probabilities[top_indices[j] + 1])

\* A model result that names maize, column 3, on votes of its own.
C26_Witness ==
    /\ ModelResult
    /\ \E j \in 1 .. 3 :
         /\ top_indices[j] = 3
         /\ probabilities[4] > 0
    /\ \E r \in 1 .. 3 : result[r].crop = "maize"

\* C23: validate_pincode accepts exactly the values whose text is six
\* characters, all of them digits.
C23_AcceptsIffSixDigits ==
    pin_result # << >> =>
        (pin_result[1] <=>
            /\ Len(pin_arg.text) = 6
            /\ \A i \in 1 .. Len(pin_arg.text) : pin_arg.text[i] \in Digits)


\* The try block of handler rt for request req.
BlockOf(rt, req) ==
    CASE rt = "crop_recommendation" -> crop_recommendation_steps(req)
      [] rt = "profit_analysis" -> profit_analysis_steps(req)
      [] rt = "analyze_disease_image" -> analyze_disease_image_steps(req)
      [] rt = "disease_management" -> disease_management_steps(req)
      [] rt = "fertilizer_guide" -> fertilizer_guide_steps(req)

Called(name) == \E i \in 1 .. Len(calls) : calls[i] = name

\* C28: in /api/crop-recommendation, enhanced_crop_prediction is called only
\* after validate_pincode and then validate_crop_name have both accepted; when
\* either of them rejects, the response has success False and no
\* recommendations, and the weather, soil and prediction steps are not run.
C28_PredictionOnlyAfterBothValidations ==
    route = "crop_recommendation" =>
      /\ \A k \in 1 .. Len(calls) :
           calls[k] = "enhanced_crop_prediction" =>
             /\ \E i \in 1 .. k, j \in 1 .. k :
                  /\ i < j
                  /\ j < k
                  /\ calls[i] = "validate_pincode"
                  /\ calls[j] = "validate_crop_name"
             /\ PincodeOutcome(request) = "ok"
             /\ CropOutcome(request) = "ok"
      /\ ( \/ Called("validate_pincode") /\ PincodeOutcome(request) = "reject"
           \/ Called("validate_crop_name") /\ CropOutcome(request) = "reject" ) =>
             /\ response.success = FALSE
             /\ "recommendations" \notin response.keys
             /\ ~Called("get_weather_data")
             /\ ~Called("get_soil_data")
             /\ ~Called("enhanced_crop_prediction")

\* An accepted pin code with a rejected past crop: the handler answers with a
\* failure after validate_crop_name.
C28_Witness ==
    /\ route = "crop_recommendation"
    /\ PincodeOutcome(request) = "ok"
    /\ CropOutcome(request) = "reject"
    /\ Called("validate_pincode")
    /\ Called("validate_crop_name")
    /\ response = Failure("rejected")

\* C29: every API handler turns an exception raised while it handles a
\* request, a request without a JSON body included, into a JSON response with
\* success False instead of letting it propagate; success is True only when
\* every validation of the handler accepted.
C29_ExceptionsBecomeFailureResponses ==
    route # "none" =>
      /\ propagated = FALSE
      /\ response.success \in BOOLEAN
      /\ "success" \in response.keys
      /\ ( \/ request.json \in { "list", "None", "error" }
           \/ h_fault # "none" /\ Called(h_fault)
           \/ Called("validate_crop_name") /\ CropOutcome(request) = "raise"
           \/ Called("translate_text") /\ request.language.type = "list" ) =>
             response.success = FALSE
      /\ response.success = TRUE =>
           \A i \in 1 .. Len(BlockOf(route, request)) :
               BlockOf(route, request)[i].kind = "validate" =>
                   BlockOf(route, request)[i].outcome = "ok"

\* A request whose body parsed to None: data.get raises, the handler answers
\* with the error response.
C29_Witness ==
    /\ route = "profit_analysis"
    /\ request.json = "None"
    /\ calls = << "request.json", "data.get", "jsonify" >>
    /\ response = Failure("error")
    /\ propagated = FALSE


====
